---- MODULE Spec2Model ----
(***************************************************************************)
(* ManoMitra: the streaming conversation handler (app/main.py), the        *)
(* services it drives (app/services/audio_processor.py) and the            *)
(* conversation store and response composer                                *)
(* (app/services/conversation_manager.py).                                 *)
(*                                                                         *)
(* Scheduling.  The application is one asyncio event loop.  A coroutine    *)
(* runs without interruption until it awaits something that really         *)
(* suspends: websocket.receive_text / send_text and loop.run_in_executor.  *)
(* ConversationManager.generate_response awaits only coroutines that never *)
(* suspend (_generate_empathetic_response, _enhance_with_context), and     *)
(* _add_to_history, _get_conversation_context and clear_session are plain  *)
(* functions, so each of them is one atomic step.  The worker threads of   *)
(* run_in_executor run the acoustic models only; they never touch the      *)
(* conversation history.                                                   *)
(***************************************************************************)
EXTENDS Integers, Sequences, FiniteSets, TLC

(***************************************************************************)
(* Bounds of the model.                                                    *)
(***************************************************************************)
MaxInputs == 4       \* websockets accepted plus inbound messages read
MaxLiveInputs == 3   \* the same in a run under the scheduling assumption
MaxSurfaceInputs == 3 \* the same plus HTTP requests in a run of both surfaces
PrefillSlack == 2    \* store runs start from max_history - PrefillSlack .. max_history stored entries
MaxStoreOps == 2     \* calls into the store in one store run

(***************************************************************************)
(* Program constants.                                                      *)
(***************************************************************************)
max_history == 50     \* conversation_manager.py:179
context_window == 5   \* conversation_manager.py:22
recent_window == 3    \* conversation_manager.py:240, context[-3:]
PoolSize == 3         \* templates per (emotion, language) pool

(***************************************************************************)
(* Python list slices.                                                     *)
(***************************************************************************)
\* seq[-n:] for n > 0: the last n elements, the whole list when it is shorter
LastN(seq, n) ==
    IF Len(seq) <= n THEN seq ELSE SubSeq(seq, Len(seq) - n + 1, Len(seq))

Range(seq) == {seq[i] : i \in 1..Len(seq)}

(***************************************************************************)
(* Values.                                                                 *)
(***************************************************************************)
\* EmotionClassifier.emotions
Emotions == <<"neutral", "happy", "sad", "angry", "fear", "surprise", "disgust">>

EmotionSet == Range(Emotions)

\* the languages that have template pools, context phrases and fallbacks
PoolLanguages == {"en", "te"}

\* a language value that is valid JSON but not hashable (a list or an object)
UnhashableLanguage == "[]"

Hashable(language) == language # UnhashableLanguage

\* a key that is absent from a JSON message
Absent == "<absent>"

\* session ids: n stands for "session_<n>"
SessionIds == 1..MaxInputs

Conns == 1..MaxInputs

(***************************************************************************)
(* Response Composer: ConversationManager templates.                       *)
(* A response string is modelled by what it is made of: the template it    *)
(* was drawn from (pool emotion, language, position in the pool), whether  *)
(* it was lower-cased, and the phrase put in front of it.                  *)
(***************************************************************************)
Template(emotion, language, idx) ==
    [kind |-> "template", emotion |-> emotion, language |-> language,
     idx |-> idx, prefix |-> "", lowered |-> FALSE]

\* self.emotion_responses.get(emotion, {}).get(language, [])
EmotionResponses(emotion, language) ==
    IF emotion \in EmotionSet /\ language \in PoolLanguages
    THEN [i \in 1..PoolSize |-> Template(emotion, language, i)]
    ELSE <<>>

\* str.lower(): every English template holds capitals, Telugu script has no case
Lower(response) ==
    [response EXCEPT !.lowered = (response.language = "en")]

\* context_phrases[language]["support"] + base_response.lower()
WithSupportPrefix(response) ==
    [Lower(response) EXCEPT !.prefix = "support"]

\* as recent_emotions taken over the whole context rather than context[-3:]
RecentEmotions_WholeContext(context) ==
    {context[i].emotion :
        i \in {j \in 1..Len(context) : "emotion" \in DOMAIN context[j]}}

\* as recent_emotions taken from the last 3 context entries that carry an
\* emotion, that is from the last 3 user turns
RecentEmotions_LastUserTurns(context) ==
    LET with_emotion == SelectSeq(context, LAMBDA entry : "emotion" \in DOMAIN entry)
        recent == LastN(with_emotion, recent_window)
    IN  {recent[i].emotion : i \in 1..Len(recent)}

\* [entry.get("emotion") for entry in context[-3:] if "emotion" in entry]
RecentEmotions(context) ==
    LET recent == LastN(context, recent_window)
    IN  {recent[i].emotion :
            i \in {j \in 1..Len(recent) : "emotion" \in DOMAIN recent[j]}}

\* as _enhance_with_context without the test on recent_emotions
EnhanceWithContext_Always(base_response, context, language) ==
    IF language \in PoolLanguages
    THEN WithSupportPrefix(base_response)
    ELSE base_response

EnhanceWithContext(base_response, context, language) ==
    IF Cardinality(RecentEmotions(context)) > 1 /\ language \in PoolLanguages
    THEN WithSupportPrefix(base_response)
    ELSE base_response

\* fallbacks.get(language, fallbacks["en"])
GetFallbackResponse(language) ==
    [kind |-> "fallback",
     language |-> IF language \in PoolLanguages THEN language ELSE "en"]

\* as _generate_empathetic_response falling back to the English neutral pool
GenerateEmpatheticResponse_EnglishNeutral(text, emotion, language, context, choice) ==
    IF ~Hashable(language)
    THEN [raised |-> TRUE, error |-> "TypeError: unhashable type"]
    ELSE LET exact == EmotionResponses(emotion, language)
             base_responses ==
                 IF exact # <<>> THEN exact ELSE EmotionResponses("neutral", "en")
             base_response == base_responses[choice]
         IN  [raised |-> FALSE,
              text |-> IF context # <<>>
                       THEN EnhanceWithContext(base_response, context, language)
                       ELSE base_response]

\* _generate_empathetic_response; choice is what random.choice draws.
\* raised: TypeError for an unhashable language (dict.get), KeyError for a
\* language without a neutral pool.
GenerateEmpatheticResponse(text, emotion, language, context, choice) ==
    IF ~Hashable(language)
    THEN [raised |-> TRUE, error |-> "TypeError: unhashable type"]
    ELSE LET exact == EmotionResponses(emotion, language)
         IN  IF exact = <<>> /\ language \notin PoolLanguages
             THEN [raised |-> TRUE, error |-> "KeyError: language"]
             ELSE LET base_responses ==
                          IF exact # <<>> THEN exact
                          ELSE EmotionResponses("neutral", language)
                      base_response == base_responses[choice]
                  IN  [raised |-> FALSE,
                       text |-> IF context # <<>>
                                THEN EnhanceWithContext(base_response, context, language)
                                ELSE base_response]

(***************************************************************************)
(* Conversation State Store: ConversationManager.conversation_history, a   *)
(* dict from session id to list of entries.  h is a function whose domain  *)
(* is the set of keys of the dict.                                         *)
(***************************************************************************)
HistoryOf(h, session_id) ==
    IF session_id \in DOMAIN h THEN h[session_id] ELSE <<>>

\* as _add_to_history without the trim
AddToHistory_NoTrim(h, session_id, entry) ==
    LET h0 == IF session_id \in DOMAIN h THEN h ELSE h @@ (session_id :> <<>>)
    IN  [h0 EXCEPT ![session_id] = Append(h0[session_id], entry)]

\* as _add_to_history with the slice [:max_history], which keeps the oldest
AddToHistory_KeepOldest(h, session_id, entry) ==
    LET h0 == IF session_id \in DOMAIN h THEN h ELSE h @@ (session_id :> <<>>)
        appended == Append(h0[session_id], entry)
    IN  [h0 EXCEPT ![session_id] =
            IF Len(appended) > max_history
            THEN SubSeq(appended, 1, max_history)
            ELSE appended]

\* as _add_to_history with the list initialised on every call, not only for
\* a new session
AddToHistory_AlwaysReset(h, session_id, entry) ==
    LET h0 == IF session_id \in DOMAIN h THEN h ELSE h @@ (session_id :> <<>>)
    IN  [h0 EXCEPT ![session_id] = <<entry>>]

AddToHistory(h, session_id, entry) ==
    LET h0 == IF session_id \in DOMAIN h THEN h ELSE h @@ (session_id :> <<>>)
        appended == Append(h0[session_id], entry)
    IN  [h0 EXCEPT ![session_id] =
            IF Len(appended) > max_history
            THEN LastN(appended, max_history)
            ELSE appended]

\* as _get_conversation_context with the slice [:context_window], the oldest
GetConversationContext_Oldest(h, session_id) ==
    LET history == HistoryOf(h, session_id)
    IN  IF Len(history) > context_window
        THEN SubSeq(history, 1, context_window)
        ELSE history

GetConversationContext(h, session_id) ==
    LET history == HistoryOf(h, session_id)
    IN  IF history # <<>> THEN LastN(history, context_window) ELSE <<>>

\* as clear_session that finds the key and leaves it
ClearSession_KeepsTurns(h, session_id) == h

\* as clear_session with self.conversation_history.clear()
ClearSession_DropsAll(h, session_id) ==
    IF session_id \in DOMAIN h THEN <<>> ELSE h

ClearSession(h, session_id) ==
    IF session_id \in DOMAIN h
    THEN [s \in DOMAIN h \ {session_id} |-> h[s]]
    ELSE h

\* as get_conversation_summary counting every stored entry
GetConversationSummary_CountsEntries(h, session_id) ==
    LET history == HistoryOf(h, session_id)
        n == Len(history)
    IN  IF history = <<>>
        THEN [message |-> "No conversation history found"]
        ELSE [session_id |-> session_id,
              total_exchanges |-> n,
              emotions_detected |->
                  {history[i].emotion :
                      i \in {j \in 1..n : "emotion" \in DOMAIN history[j]}},
              session_start |-> history[1].timestamp,
              session_end |-> history[n].timestamp,
              languages_used |->
                  {history[i].language :
                      i \in {j \in 1..n : "language" \in DOMAIN history[j]}}]

\* get_conversation_summary; list(set(...)) is modelled by the set
GetConversationSummary(h, session_id) ==
    LET history == HistoryOf(h, session_id)
        n == Len(history)
    IN  IF history = <<>>
        THEN [message |-> "No conversation history found"]
        ELSE [session_id |-> session_id,
              total_exchanges |->
                  Cardinality({j \in 1..n : "user_text" \in DOMAIN history[j]}),
              emotions_detected |->
                  {history[i].emotion :
                      i \in {j \in 1..n : "emotion" \in DOMAIN history[j]}},
              session_start |-> history[1].timestamp,
              session_end |-> history[n].timestamp,
              languages_used |->
                  {history[i].language :
                      i \in {j \in 1..n : "language" \in DOMAIN history[j]}}]

UserEntry(clock, text, emotion, language) ==
    [timestamp |-> clock, user_text |-> text, emotion |-> emotion,
     language |-> language]

BotEntry(clock, response_text, emotion) ==
    [timestamp |-> clock, bot_response |-> response_text,
     emotion_context |-> emotion]

\* generate_response on the store h at time clock.  The outcome holds the
\* store afterwards, the entries passed to _add_to_history, the clock
\* afterwards, and either the returned dict or the exception that escapes
\* (the except handler itself raises when the language is unhashable).
GenerateResponse(h, clock, text, emotion, session_id, language, choice) ==
    LET user_entry == UserEntry(clock, text, emotion, language)
        h1 == AddToHistory(h, session_id, user_entry)
        context == GetConversationContext(h1, session_id)
        composed == GenerateEmpatheticResponse(text, emotion, language, context, choice)
    IN  IF ~composed.raised
        THEN LET bot_entry == BotEntry(clock + 1, composed.text, emotion)
                 h2 == AddToHistory(h1, session_id, bot_entry)
             IN  [raised |-> FALSE, history |-> h2, clock |-> clock + 2,
                  entries |-> <<user_entry, bot_entry>>,
                  result |-> [text |-> composed.text,
                              emotion_context |-> emotion,
                              conversation_length |-> Len(HistoryOf(h2, session_id)),
                              context_used |-> Len(context)]]
        ELSE IF Hashable(language)
        THEN [raised |-> FALSE, history |-> h1, clock |-> clock + 1,
              entries |-> <<user_entry>>,
              result |-> [text |-> GetFallbackResponse(language),
                          emotion_context |-> "neutral",
                          error |-> composed.error]]
        ELSE [raised |-> TRUE, history |-> h1, clock |-> clock + 1,
              entries |-> <<user_entry>>,
              error |-> composed.error]

(***************************************************************************)
(* State.                                                                  *)
(***************************************************************************)
VARIABLES
    active_connections,    \* ConnectionManager.active_connections: list of websockets
    conversation_history,  \* main.py conversation_manager.conversation_history
    clock,                 \* what datetime.now() returns next
    pc,                    \* where each connection's handler stands
    session_id,            \* the handler's session_id
    message,               \* message_data of the turn in progress, with its arrival number
    text_result,           \* the handler's text_result
    emotion_result,        \* the handler's emotion_result
    response,              \* the handler's response
    turn_log,              \* per connection, what the current turn did: service calls and events sent
    inputs,                \* websockets accepted plus inbound messages read so far
    appended,              \* per stored session, every entry passed to _add_to_history since it was created
    in_flight,             \* store run: generate_response requests accepted and not yet run
    last_context,          \* store run: the latest _get_conversation_context call, what it
                           \* returned and how many reads of that session it ends; None once
                           \* the store has changed since
    store_ops,             \* store run: calls made so far
    invocation,            \* function run: the call under study, its arguments and what its
                           \* collaborators (librosa, the trained model, random) will do
    returned,              \* function run: what the call returned; None before it ran
    classifier,            \* classifier run: the EmotionClassifier object the calls are made on
    nlp_history            \* nlp.py conversation_manager.conversation_history

vars == <<active_connections, conversation_history, clock, pc, session_id,
          message, text_result, emotion_result, response,
          turn_log, inputs, appended, in_flight, last_context, store_ops,
          invocation, returned, classifier, nlp_history>>

handler_locals == <<message, text_result, emotion_result, response>>

store_run_vars == <<in_flight, last_context, store_ops>>

function_run_vars == <<invocation, returned, classifier, nlp_history>>

None == [none |-> TRUE]

(***************************************************************************)
(* Inputs.                                                                 *)
(***************************************************************************)
\* inbound messages that parse as JSON: audio messages in English and with a
\* language that is not hashable; text messages without a language, in an
\* unsupported language and with a language that is not hashable; messages
\* of both types without their payload; a message without a type and one of
\* a type the handler does not know
WsMessages ==
    {[type |-> "audio", audio |-> "clip", text |-> Absent, language |-> "en"],
     [type |-> "audio", audio |-> "clip", text |-> Absent, language |-> UnhashableLanguage],
     [type |-> "audio", audio |-> Absent, text |-> Absent, language |-> Absent],
     [type |-> "text", audio |-> Absent, text |-> "hi", language |-> Absent],
     [type |-> "text", audio |-> Absent, text |-> "hi", language |-> "fr"],
     [type |-> "text", audio |-> Absent, text |-> "hi", language |-> UnhashableLanguage],
     [type |-> "text", audio |-> Absent, text |-> Absent, language |-> Absent],
     [type |-> Absent, audio |-> Absent, text |-> "hi", language |-> Absent],
     [type |-> "ping", audio |-> Absent, text |-> Absent, language |-> Absent]}

\* a body that is not valid JSON
NotJson == [body |-> "{type: audio"]

\* what receive_text can return
WsBodies == WsMessages \cup {NotJson}

\* json.loads(data): the decoded message, or JSONDecodeError
JsonLoads(data) ==
    IF data = NotJson
    THEN [raised |-> TRUE, error |-> "JSONDecodeError"]
    ELSE [raised |-> FALSE, value |-> data]

\* message_data.get("language", "en")
MessageLanguage(m) == IF m.language = Absent THEN "en" ELSE m.language

\* random.choice over a pool
RandomChoices == 1..PoolSize

(***************************************************************************)
(* AudioProcessor: what each service call can return.  Every method        *)
(* catches its own exceptions and returns a default dict with an "error"   *)
(* key.  Confidences are in percent.                                       *)
(***************************************************************************)
\* process_audio_to_text
ProcessAudioToText(audio) ==
    {[text |-> "hello", confidence |-> 90, language |-> "en"],
     [text |-> "", confidence |-> 0, error |-> "stt"]}

\* detect_emotion
DetectEmotion(audio) ==
    {[emotion |-> "happy", confidence |-> 70]}
    \cup {[emotion |-> "neutral", confidence |-> 0, error |-> "emotion"]}

\* text_to_speech
TextToSpeech(text, language, emotion) ==
    {[audio_base64 |-> "UklGRg", duration |-> 1, sample_rate |-> 16000],
     [audio_base64 |-> "", duration |-> 0, error |-> "tts"]}

ServiceFailed(result) == "error" \in DOMAIN result

(***************************************************************************)
(* Outbound events of the streaming endpoint.                              *)
(***************************************************************************)
SttResultEvent(result) ==
    [type |-> "stt_result", text |-> result.text, confidence |-> result.confidence]

EmotionResultEvent(result) ==
    [type |-> "emotion_result", emotion |-> result.emotion,
     confidence |-> result.confidence]

ResponseGeneratedEvent(result) ==
    [type |-> "response_generated", text |-> result.text,
     emotion_context |-> result.emotion_context]

TtsResultEvent(result) ==
    [type |-> "tts_result", audio |-> result.audio_base64,
     duration |-> result.duration]

TextResponseEvent(result) ==
    [type |-> "text_response", text |-> result.text]

\* "Processing error: " + str(e)
ErrorEvent(error) == [type |-> "error", message |-> error]

\* a service call made by the handler, and whether the service failed inside
Call(service, failed) == [type |-> "call", service |-> service, failed |-> failed]

\* a service call together with the arguments the handler passes
CallWith(service, failed, args) ==
    [type |-> "call", service |-> service, failed |-> failed, args |-> args]

\* as ConnectionManager.disconnect emptying the list
Remove_Everyone(seq, x) == <<>>

\* self.active_connections.remove(websocket)
Remove(seq, x) == SelectSeq(seq, LAMBDA y : y # x)

\* the record of appends, kept beside the store
LogAppended(a, s, entries) ==
    IF s \in DOMAIN a THEN [a EXCEPT ![s] = @ \o entries] ELSE a @@ (s :> entries)

(***************************************************************************)
(* Init: the module-level objects of main.py right after import.           *)
(***************************************************************************)
Init ==
    /\ active_connections = <<>>
    /\ conversation_history = <<>>
    /\ clock = 1
    /\ pc = [c \in Conns |-> "new"]
    /\ session_id = [c \in Conns |-> 0]
    /\ message = [c \in Conns |-> None]
    /\ text_result = [c \in Conns |-> None]
    /\ emotion_result = [c \in Conns |-> None]
    /\ response = [c \in Conns |-> None]
    /\ turn_log = [c \in Conns |-> <<>>]
    /\ inputs = 0
    /\ appended = <<>>
    /\ in_flight = {}
    /\ last_context = None
    /\ store_ops = 0
    /\ invocation = None
    /\ returned = None
    /\ classifier = None
    /\ nlp_history = <<>>

(***************************************************************************)
(* websocket_conversation, one action per stretch between two points where *)
(* the coroutine can suspend.                                              *)
(***************************************************************************)
\* manager.connect and the session id; websockets are numbered in the order
\* they are accepted
Connect(c) ==
    /\ pc[c] = "new"
    /\ inputs < MaxInputs
    /\ \A d \in Conns : d < c => pc[d] # "new"
    /\ active_connections' = Append(active_connections, c)
    /\ session_id' = [session_id EXCEPT ![c] = Len(active_connections')]
    /\ pc' = [pc EXCEPT ![c] = "receive"]
    /\ inputs' = inputs + 1
    /\ UNCHANGED <<conversation_history, clock, handler_locals,
                   turn_log, appended, store_run_vars, function_run_vars>>

\* except WebSocketDisconnect: manager.disconnect(websocket); the handler
\* returns, and its frame (locals, the turn in progress) is gone
HandleDisconnect(c) ==
    /\ active_connections' = Remove(active_connections, c)
    /\ pc' = [pc EXCEPT ![c] = "closed"]
    /\ message' = [message EXCEPT ![c] = None]
    /\ text_result' = [text_result EXCEPT ![c] = None]
    /\ emotion_result' = [emotion_result EXCEPT ![c] = None]
    /\ response' = [response EXCEPT ![c] = None]
    /\ turn_log' = [turn_log EXCEPT ![c] = <<>>]

\* await websocket.send_text(event) after the service calls of this step,
\* whose results go to the handler's locals.  Either the event is sent, or
\* the client has gone: the send raises WebSocketDisconnect, the inner
\* handler's own send raises it again, and the outer handler runs
SendEvent(c, calls, event, next_pc, locals) ==
    \/ /\ turn_log' = [turn_log EXCEPT ![c] = @ \o calls \o <<event>>]
       /\ pc' = [pc EXCEPT ![c] = next_pc]
       /\ text_result' = [text_result EXCEPT ![c] = locals.text_result]
       /\ emotion_result' = [emotion_result EXCEPT ![c] = locals.emotion_result]
       /\ response' = [response EXCEPT ![c] = locals.response]
       /\ UNCHANGED <<active_connections, message>>
    \/ HandleDisconnect(c)

Locals(c) ==
    [text_result |-> text_result[c], emotion_result |-> emotion_result[c],
     response |-> response[c]]

\* an exception other than WebSocketDisconnect leaves websocket_conversation:
\* no handler of the function catches it, the coroutine ends with its frame,
\* and manager.disconnect is not called
HandlerEscapes(c) ==
    /\ pc' = [pc EXCEPT ![c] = "crashed"]
    /\ message' = [message EXCEPT ![c] = None]
    /\ UNCHANGED active_connections

\* the position of the message about to be read in the connection's inbound
\* stream
NextArrival(c) == IF message[c] = None THEN 1 ELSE message[c].arrival + 1

\* the branch the handler takes on message_data["type"]; a type that is
\* neither "audio" nor "text" takes none and the loop reads again
Dispatch(m) ==
    IF m.type = "audio" THEN "stt"
    ELSE IF m.type = "text" THEN "text"
    ELSE "receive"

\* as the read with the next message taken while the turn of the previous
\* one awaits its synthesis
ReceiveMessage_Early(c) ==
    /\ pc[c] \in {"receive", "tts"}
    /\ inputs < MaxInputs
    /\ \E data \in WsBodies :
         LET loaded == JsonLoads(data)
         IN  IF loaded.raised \/ loaded.value.type = Absent
             THEN HandlerEscapes(c)
             ELSE /\ message' = [message EXCEPT ![c] =
                                    loaded.value @@ [arrival |-> NextArrival(c)]]
                  /\ pc' = [pc EXCEPT ![c] = Dispatch(loaded.value)]
                  /\ UNCHANGED active_connections
    /\ text_result' = [text_result EXCEPT ![c] = None]
    /\ emotion_result' = [emotion_result EXCEPT ![c] = None]
    /\ response' = [response EXCEPT ![c] = None]
    /\ turn_log' = [turn_log EXCEPT ![c] = <<>>]
    /\ inputs' = inputs + 1
    /\ UNCHANGED <<conversation_history, clock, session_id,
                   appended, store_run_vars, function_run_vars>>

\* data = await websocket.receive_text(); message_data = json.loads(data);
\* message_data["type"].  json.loads and the lookup of "type" stand outside
\* the inner try blocks
ReceiveMessage(c) ==
    /\ pc[c] = "receive"
    /\ inputs < MaxInputs
    /\ \E data \in WsBodies :
         LET loaded == JsonLoads(data)
         IN  IF loaded.raised \/ loaded.value.type = Absent
             THEN HandlerEscapes(c)
             ELSE /\ message' = [message EXCEPT ![c] =
                                    loaded.value @@ [arrival |-> NextArrival(c)]]
                  /\ pc' = [pc EXCEPT ![c] = Dispatch(loaded.value)]
                  /\ UNCHANGED active_connections
    /\ text_result' = [text_result EXCEPT ![c] = None]
    /\ emotion_result' = [emotion_result EXCEPT ![c] = None]
    /\ response' = [response EXCEPT ![c] = None]
    /\ turn_log' = [turn_log EXCEPT ![c] = <<>>]
    /\ inputs' = inputs + 1
    /\ UNCHANGED <<conversation_history, clock, session_id,
                   appended, store_run_vars, function_run_vars>>

\* receive_text raises WebSocketDisconnect: the client has gone while the
\* handler was waiting for a message
ReceiveDisconnect(c) ==
    /\ pc[c] = "receive"
    /\ HandleDisconnect(c)
    /\ UNCHANGED <<conversation_history, clock, session_id, inputs, appended,
                   store_run_vars, function_run_vars>>

\* as Step 1 with the service's exception escaping both handlers: the
\* handler ends and the connection is dropped
AudioSpeechToText_EscapeOnFailure(c) ==
    /\ pc[c] = "stt"
    /\ IF message[c].audio = Absent
       THEN SendEvent(c, <<>>, ErrorEvent("KeyError: 'audio'"), "receive", Locals(c))
       ELSE \E result \in ProcessAudioToText(message[c].audio) :
              IF ServiceFailed(result)
              THEN /\ turn_log' = [turn_log EXCEPT ![c] = @ \o <<Call("stt", TRUE)>>]
                   /\ pc' = [pc EXCEPT ![c] = "closed"]
                   /\ active_connections' = Remove(active_connections, c)
                   /\ UNCHANGED handler_locals
              ELSE SendEvent(c, <<Call("stt", FALSE)>>, SttResultEvent(result),
                             "emotion", [Locals(c) EXCEPT !.text_result = result])
    /\ UNCHANGED <<conversation_history, clock, session_id, inputs, appended,
                   store_run_vars, function_run_vars>>

\* Step 1: message_data["audio"], process_audio_to_text, send stt_result
AudioSpeechToText(c) ==
    /\ pc[c] = "stt"
    /\ IF message[c].audio = Absent
       THEN SendEvent(c, <<>>, ErrorEvent("KeyError: 'audio'"), "receive", Locals(c))
       ELSE \E result \in ProcessAudioToText(message[c].audio) :
              SendEvent(c, <<Call("stt", ServiceFailed(result))>>,
                        SttResultEvent(result), "emotion",
                        [Locals(c) EXCEPT !.text_result = result])
    /\ UNCHANGED <<conversation_history, clock, session_id, inputs, appended,
                   store_run_vars, function_run_vars>>

\* as Step 2 with emotion_result held back instead of sent
AudioEmotion_NoSend(c) ==
    /\ pc[c] = "emotion"
    /\ \E result \in DetectEmotion(message[c].audio) :
         /\ turn_log' = [turn_log EXCEPT ![c] =
                             @ \o <<Call("emotion", ServiceFailed(result))>>]
         /\ pc' = [pc EXCEPT ![c] = "compose"]
         /\ emotion_result' = [emotion_result EXCEPT ![c] = result]
    /\ UNCHANGED <<active_connections, message, text_result, response,
                   conversation_history, clock, session_id, inputs, appended,
                   store_run_vars, function_run_vars>>

\* as Step 2 with a failed detection reported as an error that ends the turn
AudioEmotion_ErrorOnFailure(c) ==
    /\ pc[c] = "emotion"
    /\ \E result \in DetectEmotion(message[c].audio) :
         IF ServiceFailed(result)
         THEN SendEvent(c, <<Call("emotion", TRUE)>>, ErrorEvent(result.error),
                        "receive", Locals(c))
         ELSE SendEvent(c, <<Call("emotion", FALSE)>>,
                        EmotionResultEvent(result), "compose",
                        [Locals(c) EXCEPT !.emotion_result = result])
    /\ UNCHANGED <<conversation_history, clock, session_id, inputs, appended,
                   store_run_vars, function_run_vars>>

\* Step 2: detect_emotion, send emotion_result
AudioEmotion(c) ==
    /\ pc[c] = "emotion"
    /\ \E result \in DetectEmotion(message[c].audio) :
         SendEvent(c, <<Call("emotion", ServiceFailed(result))>>,
                   EmotionResultEvent(result), "compose",
                   [Locals(c) EXCEPT !.emotion_result = result])
    /\ UNCHANGED <<conversation_history, clock, session_id, inputs, appended,
                   store_run_vars, function_run_vars>>

\* the event that carries a composed response on each branch
ComposeEvent(event_type, result) ==
    IF event_type = "response_generated"
    THEN ResponseGeneratedEvent(result)
    ELSE TextResponseEvent(result)

\* the keyword arguments of the handler's generate_response call
ComposeArgs(c, text, emotion) ==
    [text |-> text, emotion |-> emotion, session_id |-> session_id[c],
     language |-> MessageLanguage(message[c])]

\* conversation_manager.generate_response(...) followed by the send of its
\* event; an exception that escapes generate_response goes to the inner
\* handler, which sends an error event
ComposeAndSend(c, text, emotion, event_type, next_pc) ==
    \E choice \in RandomChoices :
        LET out == GenerateResponse(conversation_history, clock, text, emotion,
                                    session_id[c], MessageLanguage(message[c]), choice)
        IN  /\ conversation_history' = out.history
            /\ clock' = out.clock
            /\ appended' = LogAppended(appended, session_id[c], out.entries)
            /\ IF out.raised
               THEN SendEvent(c, <<CallWith("compose", TRUE, ComposeArgs(c, text, emotion))>>,
                              ErrorEvent(out.error), "receive", Locals(c))
               ELSE SendEvent(c, <<CallWith("compose", ServiceFailed(out.result),
                                            ComposeArgs(c, text, emotion))>>,
                              ComposeEvent(event_type, out.result), next_pc,
                              [Locals(c) EXCEPT !.response = out.result])

\* as Step 3 composing with the text branch's emotion
AudioGenerateResponse_NeutralEmotion(c) ==
    /\ pc[c] = "compose"
    /\ ComposeAndSend(c, text_result[c].text, "neutral",
                      "response_generated", "tts")
    /\ UNCHANGED <<session_id, inputs, store_run_vars, function_run_vars>>

\* Step 3: generate_response, send response_generated
AudioGenerateResponse(c) ==
    /\ pc[c] = "compose"
    /\ ComposeAndSend(c, text_result[c].text, emotion_result[c].emotion,
                      "response_generated", "tts")
    /\ UNCHANGED <<session_id, inputs, store_run_vars, function_run_vars>>

\* the keyword arguments of the handler's text_to_speech call
SynthesisArgs(c) ==
    [text |-> response[c].text, language |-> MessageLanguage(message[c]),
     emotion |-> emotion_result[c].emotion]

\* as Step 4 without the send of tts_result
AudioTextToSpeech_NoSend(c) ==
    /\ pc[c] = "tts"
    /\ \E result \in TextToSpeech(response[c].text, MessageLanguage(message[c]),
                                  emotion_result[c].emotion) :
         /\ turn_log' = [turn_log EXCEPT ![c] = @ \o <<CallWith("tts", ServiceFailed(result), SynthesisArgs(c))>>]
         /\ pc' = [pc EXCEPT ![c] = "receive"]
    /\ UNCHANGED <<active_connections, conversation_history, clock, session_id,
                   handler_locals, inputs, appended, store_run_vars, function_run_vars>>

\* as Step 4 with the session cleared when synthesis fails
AudioTextToSpeech_Rollback(c) ==
    /\ pc[c] = "tts"
    /\ \E result \in TextToSpeech(response[c].text, MessageLanguage(message[c]),
                                  emotion_result[c].emotion) :
         /\ SendEvent(c, <<CallWith("tts", ServiceFailed(result), SynthesisArgs(c))>>,
                      TtsResultEvent(result), "receive", Locals(c))
         /\ conversation_history' =
              IF ServiceFailed(result)
              THEN ClearSession(conversation_history, session_id[c])
              ELSE conversation_history
    /\ UNCHANGED <<clock, session_id, inputs, appended, store_run_vars, function_run_vars>>

\* Step 4: text_to_speech, send tts_result
AudioTextToSpeech(c) ==
    /\ pc[c] = "tts"
    /\ \E result \in TextToSpeech(response[c].text, MessageLanguage(message[c]),
                                  emotion_result[c].emotion) :
         SendEvent(c, <<CallWith("tts", ServiceFailed(result), SynthesisArgs(c))>>,
                   TtsResultEvent(result), "receive", Locals(c))
    /\ UNCHANGED <<conversation_history, clock, session_id, inputs, appended,
                   store_run_vars, function_run_vars>>

\* as the text branch with the audio branch's event
TextGenerateResponse_AsAudio(c) ==
    /\ pc[c] = "text"
    /\ IF message[c].text = Absent
       THEN /\ SendEvent(c, <<>>, ErrorEvent("KeyError: 'text'"), "receive", Locals(c))
            /\ UNCHANGED <<conversation_history, clock, appended>>
       ELSE ComposeAndSend(c, message[c].text, "neutral", "response_generated", "receive")
    /\ UNCHANGED <<session_id, inputs, store_run_vars, function_run_vars>>

\* as the text branch with a missing text swallowed: no event is sent
TextGenerateResponse_SilentOnMissingText(c) ==
    /\ pc[c] = "text"
    /\ IF message[c].text = Absent
       THEN /\ pc' = [pc EXCEPT ![c] = "receive"]
            /\ UNCHANGED <<active_connections, handler_locals, turn_log,
                           conversation_history, clock, appended>>
       ELSE ComposeAndSend(c, message[c].text, "neutral", "text_response", "receive")
    /\ UNCHANGED <<session_id, inputs, store_run_vars, function_run_vars>>

\* the text branch: message_data["text"], generate_response with emotion
\* "neutral", send text_response
TextGenerateResponse(c) ==
    /\ pc[c] = "text"
    /\ IF message[c].text = Absent
       THEN /\ SendEvent(c, <<>>, ErrorEvent("KeyError: 'text'"), "receive", Locals(c))
            /\ UNCHANGED <<conversation_history, clock, appended>>
       ELSE ComposeAndSend(c, message[c].text, "neutral", "text_response", "receive")
    /\ UNCHANGED <<session_id, inputs, store_run_vars, function_run_vars>>

\* one step of the handler of connection c
HandlerStep(c) ==
    \/ Connect(c)
    \/ ReceiveMessage(c)
    \/ ReceiveDisconnect(c)
    \/ AudioSpeechToText(c)
    \/ AudioEmotion(c)
    \/ AudioGenerateResponse(c)
    \/ AudioTextToSpeech(c)
    \/ TextGenerateResponse(c)

Next == \E c \in Conns : HandlerStep(c)

Spec == Init /\ [][Next]_vars

(***************************************************************************)
(* The handler under the event loop's scheduling: a handler that stands at *)
(* a stage is resumed when the awaited call has returned or raised, so the *)
(* step of its stage is taken, with either outcome of the send.  Nothing   *)
(* obliges a client to connect, to send a message or to disconnect.        *)
(***************************************************************************)
\* the step of the stage the handler of c stands at
StageStep(c) ==
    \/ AudioSpeechToText(c)
    \/ AudioEmotion(c)
    \/ AudioGenerateResponse(c)
    \/ AudioTextToSpeech(c)
    \/ TextGenerateResponse(c)

Stages == {"stt", "emotion", "compose", "tts", "text"}

\* StageStep(c) by its effect on the handler's position: the handler leaves
\* the stage it stands at, for the next stage, for the read, or closed.
\* Each stage's step is enabled whenever the handler stands at the stage,
\* and it is the only step that moves the handler from there.
StageReturns(c) ==
    /\ pc[c] \in Stages
    /\ \E p \in (Stages \cup {"receive", "closed"}) \ {pc[c]} :
          pc' = [pc EXCEPT ![c] = p]

\* a handler step within the inputs of a run under the scheduling assumption
LiveNext == \E c \in Conns : HandlerStep(c) /\ inputs' <= MaxLiveInputs

LiveSpec == Init /\ [][LiveNext]_vars /\ \A c \in Conns : WF_pc(StageReturns(c))

(***************************************************************************)
(* The two surfaces of the application side by side: the streaming         *)
(* endpoint of main.py, whose handlers use main.py's conversation_manager, *)
(* and the HTTP endpoints of nlp.py, which use the ConversationManager     *)
(* that nlp.py constructs for itself.  An HTTP request is one atomic step: *)
(* the endpoints await nothing that suspends.  Session ids are written as  *)
(* numbers: n is "session_n".                                              *)
(***************************************************************************)
\* the session ids HTTP clients ask for: the ids of the first connections
HttpSessions == {1, 2}

\* what a request leaves alone on the streaming side and in the other runs
http_frame == <<active_connections, conversation_history, pc, session_id,
                handler_locals, turn_log, appended, store_run_vars,
                invocation, classifier>>

\* POST /generate_response
HttpGenerateResponse(s, emotion, language) ==
    /\ inputs < MaxSurfaceInputs
    /\ inputs' = inputs + 1
    /\ \E choice \in RandomChoices :
         LET out == GenerateResponse(nlp_history, clock, "note", emotion, s,
                                     language, choice)
         IN  /\ nlp_history' = out.history
             /\ clock' = out.clock
             /\ returned' =
                   [op |-> "generate_response", session_id |-> s, at |-> inputs + 1,
                    value |->
                        IF out.raised
                        THEN [status |-> 500, detail |-> out.error]
                        ELSE [success |-> TRUE,
                              response |-> out.result.text,
                              emotion_context |-> out.result.emotion_context,
                              conversation_length |->
                                  IF "conversation_length" \in DOMAIN out.result
                                  THEN out.result.conversation_length ELSE 0,
                              context_used |->
                                  IF "context_used" \in DOMAIN out.result
                                  THEN out.result.context_used ELSE 0]]
    /\ UNCHANGED http_frame

\* POST /conversation_summary
HttpConversationSummary(s) ==
    /\ inputs < MaxSurfaceInputs
    /\ inputs' = inputs + 1
    /\ returned' = [op |-> "conversation_summary", session_id |-> s, at |-> inputs + 1,
                    value |-> [success |-> TRUE,
                               summary |-> GetConversationSummary(nlp_history, s)]]
    /\ UNCHANGED <<nlp_history, clock, http_frame>>

\* as DELETE /clear_session on the manager of main.py
HttpClearSession_MainStore(s) ==
    /\ inputs < MaxSurfaceInputs
    /\ inputs' = inputs + 1
    /\ conversation_history' = ClearSession(conversation_history, s)
    /\ returned' = [op |-> "clear_session", session_id |-> s, at |-> inputs + 1,
                    value |-> [success |-> TRUE]]
    /\ UNCHANGED <<nlp_history, clock, active_connections, pc, session_id,
                   handler_locals, turn_log, appended, store_run_vars,
                   invocation, classifier>>

\* DELETE /clear_session/{session_id}
HttpClearSession(s) ==
    /\ inputs < MaxSurfaceInputs
    /\ inputs' = inputs + 1
    /\ nlp_history' = ClearSession(nlp_history, s)
    /\ returned' = [op |-> "clear_session", session_id |-> s, at |-> inputs + 1,
                    value |-> [success |-> TRUE]]
    /\ UNCHANGED <<clock, http_frame>>

\* a request or a handler step within the inputs of a run of both surfaces
SurfaceNext ==
    \/ \E c \in Conns : HandlerStep(c) /\ inputs' <= MaxSurfaceInputs
    \/ \E s \in HttpSessions, emotion \in {"neutral", "sad"}, language \in {"en", "fr"} :
          HttpGenerateResponse(s, emotion, language)
    \/ \E s \in HttpSessions : HttpConversationSummary(s)
    \/ \E s \in HttpSessions : HttpClearSession(s)

SurfaceSpec == Init /\ [][SurfaceNext]_vars

(***************************************************************************)
(* Startup: importing app.main constructs one AudioProcessor per module    *)
(* that holds one (the three routers main.py imports, then main.py         *)
(* itself).  A run starts before the import, with the loader that raises   *)
(* in each construction, if any, drawn in the initial state; requests are  *)
(* served only by an application whose import went through.                *)
(***************************************************************************)
\* the loader that raises inside _initialize_models, or "none"
LoadFailures == {"none", "stt", "emotion", "tts"}

\* modules with a module-level AudioProcessor(), in import order
AudioProcessorModules == <<"app.api.stt", "app.api.emotion", "app.api.tts", "app.main">>

\* as _initialize_models logging the error without raising it again
InitializeModels_Swallow(failure) ==
    [raised |-> FALSE,
     stt_model |-> IF failure = "stt" THEN "None" ELSE "whisper",
     emotion_model |-> IF failure \in {"stt", "emotion"}
                       THEN "None" ELSE "EmotionClassifier",
     tts_model |-> IF failure = "none" THEN "TTS" ELSE "None"]

\* AudioProcessor(): the three attributes start as None and the loaders run
\* in order (whisper, EmotionClassifier, TTS); an exception from any of them
\* is logged and raised again
InitializeModels(failure) ==
    [raised |-> failure # "none",
     stt_model |-> IF failure = "stt" THEN "None" ELSE "whisper",
     emotion_model |-> IF failure \in {"stt", "emotion"}
                       THEN "None" ELSE "EmotionClassifier",
     tts_model |-> IF failure = "none" THEN "TTS" ELSE "None"]

\* import app.main: the constructions run in order, the first that raises
\* ends the import; processors are the objects bound to a module name
ImportApp(failures) ==
    LET made == [i \in 1..Len(AudioProcessorModules) |-> InitializeModels(failures[i])]
        bad == {i \in 1..Len(AudioProcessorModules) : made[i].raised}
        stop == IF bad = {} THEN Len(AudioProcessorModules) + 1
                ELSE CHOOSE i \in bad : \A j \in bad : i <= j
    IN  [raised |-> bad # {},
         processors |-> [i \in 1..(stop - 1) |-> made[i]]]

StartupInit ==
    /\ active_connections = <<>>
    /\ conversation_history = <<>>
    /\ clock = 1
    /\ pc = [c \in Conns |-> "new"]
    /\ session_id = [c \in Conns |-> 0]
    /\ message = [c \in Conns |-> None]
    /\ text_result = [c \in Conns |-> None]
    /\ emotion_result = [c \in Conns |-> None]
    /\ response = [c \in Conns |-> None]
    /\ turn_log = [c \in Conns |-> <<>>]
    /\ inputs = 0
    /\ appended = <<>>
    /\ in_flight = {}
    /\ last_context = None
    /\ store_ops = 0
    /\ invocation \in [failures : [1..Len(AudioProcessorModules) -> LoadFailures]]
    /\ returned = None
    /\ classifier = None
    /\ nlp_history = <<>>

\* the server imports the application
StartApp ==
    /\ returned = None
    /\ returned' = [op |-> "import app.main", value |-> ImportApp(invocation.failures)]
    /\ UNCHANGED <<nlp_history, invocation, classifier, active_connections, conversation_history, clock, pc,
                   session_id, handler_locals, turn_log, inputs, appended,
                   store_run_vars>>

\* the import went through and the server accepts requests
AppStarted == returned # None /\ ~returned.value.raised

StartupNext ==
    \/ StartApp
    \/ AppStarted /\ Next

StartupSpec == StartupInit /\ [][StartupNext]_vars

(***************************************************************************)
(* Store runs: one ConversationManager driven directly, as the HTTP        *)
(* endpoints of app/api/nlp.py and the handlers above drive it.  A run     *)
(* starts from a store that holds a session of n entries, the state after  *)
(* n _add_to_history calls on a fresh manager, so that the cap is within   *)
(* reach.  Requests for generate_response are accepted as tasks and run    *)
(* later, in any order; each runs to completion once it starts.            *)
(***************************************************************************)
StoreSessions == {1, 2}

\* the k-th entry of the prefilled session: the turns of an exchange in
\* English with emotion "happy" and the first template
PrefillEntry(k) ==
    IF k % 2 = 1
    THEN UserEntry(k, "hello", "happy", "en")
    ELSE BotEntry(k, Template("happy", "en", 1), "happy")

\* the store after n <= max_history calls of _add_to_history for session 1
\* on a fresh manager: the first creates the list, none of them trims
Prefill(n) ==
    IF n = 0 THEN <<>> ELSE 1 :> [k \in 1..n |-> PrefillEntry(k)]

\* stored lengths at the start of a store run: none, around the context
\* window, and just below the cap
Prefills ==
    {0} \cup ((context_window - 1)..(context_window + 1))
        \cup ((max_history - PrefillSlack)..max_history)

StoreInit ==
    /\ active_connections = <<>>
    /\ pc = [c \in Conns |-> "new"]
    /\ session_id = [c \in Conns |-> 0]
    /\ message = [c \in Conns |-> None]
    /\ text_result = [c \in Conns |-> None]
    /\ emotion_result = [c \in Conns |-> None]
    /\ response = [c \in Conns |-> None]
    /\ turn_log = [c \in Conns |-> <<>>]
    /\ inputs = 0
    /\ in_flight = {}
    /\ last_context = None
    /\ store_ops = 0
    /\ invocation = None
    /\ returned = None
    /\ classifier = None
    /\ nlp_history = <<>>
    /\ \E n \in Prefills :
         /\ conversation_history = Prefill(n)
         /\ appended = IF n = 0 THEN <<>> ELSE (1 :> [k \in 1..n |-> PrefillEntry(k)])
         /\ clock = n + 1

handler_vars == <<active_connections, pc, session_id, handler_locals, turn_log, inputs>>

\* a request for generate_response arrives; its id is its arrival number
SubmitGenerateResponse(s, emotion, language) ==
    /\ store_ops < MaxStoreOps
    /\ store_ops' = store_ops + 1
    /\ in_flight' = in_flight \cup
                      {[id |-> store_ops + 1, session_id |-> s, text |-> "hi",
                        emotion |-> emotion, language |-> language]}
    /\ UNCHANGED <<conversation_history, clock, appended, last_context, handler_vars, function_run_vars>>

\* the event loop runs an accepted request: generate_response, start to end
RunGenerateResponse(r) ==
    /\ r \in in_flight
    /\ \E choice \in RandomChoices :
         LET out == GenerateResponse(conversation_history, clock, r.text, r.emotion,
                                     r.session_id, r.language, choice)
         IN  /\ conversation_history' = out.history
             /\ clock' = out.clock
             /\ appended' = LogAppended(appended, r.session_id, out.entries)
    /\ in_flight' = in_flight \ {r}
    /\ last_context' = None
    /\ UNCHANGED <<store_ops, handler_vars, function_run_vars>>

\* _add_to_history called directly
CallAddToHistory(s) ==
    /\ store_ops < MaxStoreOps
    /\ store_ops' = store_ops + 1
    /\ LET entry == UserEntry(clock, "hi", "happy", "en")
       IN  /\ conversation_history' = AddToHistory(conversation_history, s, entry)
           /\ appended' = LogAppended(appended, s, <<entry>>)
    /\ clock' = clock + 1
    /\ last_context' = None
    /\ UNCHANGED <<in_flight, handler_vars, function_run_vars>>

\* clear_session
CallClearSession(s) ==
    /\ store_ops < MaxStoreOps
    /\ store_ops' = store_ops + 1
    /\ conversation_history' = ClearSession(conversation_history, s)
    /\ appended' = ClearSession(appended, s)
    /\ last_context' = None
    /\ UNCHANGED <<clock, in_flight, handler_vars, function_run_vars>>

\* as _get_conversation_context reading with setdefault, which creates the key
CallGetConversationContext_SetDefault(s) ==
    /\ store_ops < MaxStoreOps
    /\ store_ops' = store_ops + 1
    /\ last_context' =
         [session_id |-> s,
          context |-> GetConversationContext(conversation_history, s),
          reads |-> IF last_context # None /\ last_context.session_id = s
                    THEN last_context.reads + 1 ELSE 1]
    /\ conversation_history' =
         IF s \in DOMAIN conversation_history
         THEN conversation_history
         ELSE conversation_history @@ (s :> <<>>)
    /\ UNCHANGED <<clock, appended, in_flight, handler_vars, function_run_vars>>

\* _get_conversation_context called directly: the store is only read
CallGetConversationContext(s) ==
    /\ store_ops < MaxStoreOps
    /\ store_ops' = store_ops + 1
    /\ last_context' =
         [session_id |-> s,
          context |-> GetConversationContext(conversation_history, s),
          reads |-> IF last_context # None /\ last_context.session_id = s
                    THEN last_context.reads + 1 ELSE 1]
    /\ UNCHANGED <<conversation_history, clock, appended, in_flight, handler_vars, function_run_vars>>

\* get_conversation_summary, as the conversation_summary endpoint calls it
CallGetConversationSummary(s) ==
    /\ store_ops < MaxStoreOps
    /\ store_ops' = store_ops + 1
    /\ returned' = [op |-> "get_conversation_summary", session_id |-> s,
                    at |-> store_ops + 1,
                    value |-> GetConversationSummary(conversation_history, s)]
    /\ UNCHANGED <<nlp_history, conversation_history, clock, appended, in_flight, last_context,
                   invocation, classifier, handler_vars>>

StoreNext ==
    \/ \E s \in StoreSessions, emotion \in {"happy", "sad"}, language \in {"en", "fr"} :
          SubmitGenerateResponse(s, emotion, language)
    \/ \E r \in in_flight : RunGenerateResponse(r)
    \/ \E s \in StoreSessions : CallAddToHistory(s)
    \/ \E s \in StoreSessions : CallClearSession(s)
    \/ \E s \in StoreSessions : CallGetConversationContext(s)
    \/ \E s \in StoreSessions : CallGetConversationSummary(s)

StoreSpec == StoreInit /\ [][StoreNext]_vars

(***************************************************************************)
(* EmotionClassifier (app/models/emotion_classifier.py).                   *)
(* Numbers.  Energy is counted in thousandths, speaking rate and           *)
(* confidence in hundredths, pitch variation in Hz.  A probability is a    *)
(* fraction [num, den]; a probability mapping is [num, den] with num a     *)
(* function on the labels, the probability of label e being num[e] / den.  *)
(***************************************************************************)
MaxWeight == 1          \* predict_proba entries are multiples of 1 / their sum, up to MaxWeight

n_mfcc == 13            \* emotion_classifier.py:54
n_chroma == 12          \* emotion_classifier.py:89, librosa's default
ZeroVectorSize == 100   \* emotion_classifier.py:109
EnergyLoud == 10        \* emotion_classifier.py:207, 0.01
PitchVaried == 50       \* emotion_classifier.py:207
RateFast == 10          \* emotion_classifier.py:208, 0.1
EnergyQuiet == 5        \* emotion_classifier.py:210, 0.005
PitchWide == 100        \* emotion_classifier.py:213
BaseWeight == 10        \* emotion_classifier.py:225, 0.1

RECURSIVE SumSeq(_)
SumSeq(seq) ==
    IF seq = <<>> THEN 0 ELSE seq[1] + SumSeq(Tail(seq))

\* the blocks appended to features, in order: mean, std, max, min of the
\* MFCCs; centroid, rolloff and zero-crossing mean and std; chroma mean and
\* std; tempo
FeatureBlocks ==
    <<n_mfcc, n_mfcc, n_mfcc, n_mfcc, 2, 2, 2, n_chroma, n_chroma, 1>>

\* the length of np.concatenate of the flattened blocks
FeatureLength == SumSeq(FeatureBlocks)

\* extract_features; failed: a librosa or numpy call inside the try raised
ExtractFeatures(failed) ==
    IF failed
    THEN [length |-> ZeroVectorSize, all_zero |-> TRUE]
    ELSE [length |-> FeatureLength, all_zero |-> FALSE]

\* sum(probabilities.values())
Total(weights) == SumSeq([i \in 1..Len(Emotions) |-> weights[Emotions[i]]])

\* as the normalisation left out of _predict_rule_based
Normalize_Skipped(probabilities) == probabilities

\* {k: v/total for k, v in probabilities.items()}
Normalize(probabilities) ==
    [num |-> probabilities.num, den |-> Total(probabilities.num)]

\* the rules of _predict_rule_based with the pitch test before the quiet test
RuleBasedDecision_SurpriseFirst(audio) ==
    IF audio.energy > EnergyLoud /\ audio.pitch_variation > PitchVaried
    THEN [emotion |-> IF audio.speaking_rate > RateFast THEN "happy" ELSE "angry",
          confidence |-> 70]
    ELSE IF audio.pitch_variation > PitchWide
    THEN [emotion |-> "surprise", confidence |-> 65]
    ELSE IF audio.energy < EnergyQuiet
    THEN [emotion |-> "sad", confidence |-> 60]
    ELSE [emotion |-> "neutral", confidence |-> 50]

\* the rules of _predict_rule_based without the quiet row
RuleBasedDecision_QuietSkipped(audio) ==
    IF audio.energy > EnergyLoud /\ audio.pitch_variation > PitchVaried
    THEN [emotion |-> IF audio.speaking_rate > RateFast THEN "happy" ELSE "angry",
          confidence |-> 70]
    ELSE IF audio.pitch_variation > PitchWide
    THEN [emotion |-> "surprise", confidence |-> 65]
    ELSE IF audio.energy < EnergyQuiet
    THEN [emotion |-> "neutral", confidence |-> 50]
    ELSE [emotion |-> "neutral", confidence |-> 50]

\* the if / elif chain of _predict_rule_based on the measured audio
RuleBasedDecision(audio) ==
    IF audio.energy > EnergyLoud /\ audio.pitch_variation > PitchVaried
    THEN [emotion |-> IF audio.speaking_rate > RateFast THEN "happy" ELSE "angry",
          confidence |-> 70]
    ELSE IF audio.energy < EnergyQuiet
    THEN [emotion |-> "sad", confidence |-> 60]
    ELSE IF audio.pitch_variation > PitchWide
    THEN [emotion |-> "surprise", confidence |-> 65]
    ELSE [emotion |-> "neutral", confidence |-> 50]

\* the except branch of _predict_rule_based
RuleBasedError ==
    [emotion |-> "neutral",
     confidence |-> [num |-> 0, den |-> 1],
     probabilities |-> [num |-> [e \in EmotionSet |-> 1], den |-> Len(Emotions)],
     path |-> "rule_based_error"]

\* _predict_rule_based; audio is None or the measured audio; failed: piptrack,
\* zero_crossing_rate or numpy raised on the audio
PredictRuleBased(audio, failed) ==
    IF audio # None /\ failed
    THEN RuleBasedError
    ELSE LET decision == IF audio # None
                         THEN RuleBasedDecision(audio)
                         ELSE [emotion |-> "neutral", confidence |-> 50]
             weights == [e \in EmotionSet |->
                            IF e = decision.emotion THEN decision.confidence
                            ELSE BaseWeight]
         IN  [emotion |-> decision.emotion,
              confidence |-> [num |-> decision.confidence, den |-> 100],
              probabilities |-> Normalize([num |-> weights, den |-> 100]),
              path |-> IF audio # None THEN "rule_based" ELSE "rule_based_no_audio"]

\* np.argmax: the first index that holds the maximum
ArgMax(proba) ==
    CHOOSE i \in 1..Len(proba) :
        /\ \A j \in 1..Len(proba) : proba[j] <= proba[i]
        /\ \A j \in 1..(i - 1) : proba[j] < proba[i]

\* model.classes_ of the forest fitted on the label strings: sorted
SortedLabels ==
    <<"angry", "disgust", "fear", "happy", "neutral", "sad", "surprise">>

\* as _predict_with_model naming the label by the model's own class order
PredictWithModel_ClassOrder(features, proba) ==
    IF features.length # FeatureLength \/ Len(proba) < Len(Emotions)
    THEN PredictRuleBased(None, FALSE)
    ELSE LET predicted_idx == ArgMax(proba)
         IN  [emotion |-> SortedLabels[predicted_idx],
              confidence |-> [num |-> proba[predicted_idx], den |-> SumSeq(proba)],
              probabilities |->
                  [num |-> [e \in EmotionSet |->
                              proba[CHOOSE i \in 1..Len(Emotions) : Emotions[i] = e]],
                   den |-> SumSeq(proba)],
              path |-> "model"]

\* _predict_with_model with a scikit-learn model, the only kind load_model
\* loads.  proba is the row predict_proba returns, its entries counted in
\* units of 1 / their sum.  The scaler and the model were fitted on vectors
\* of FeatureLength and raise on any other length; a row shorter than the
\* label list raises IndexError when prob_dict is built.  Either way the
\* except branch answers with _predict_rule_based(None, features).
PredictWithModel(features, proba) ==
    IF features.length # FeatureLength \/ Len(proba) < Len(Emotions)
    THEN PredictRuleBased(None, FALSE)
    ELSE LET predicted_idx == ArgMax(proba)
         IN  [emotion |-> Emotions[predicted_idx],
              confidence |-> [num |-> proba[predicted_idx], den |-> SumSeq(proba)],
              probabilities |->
                  [num |-> [e \in EmotionSet |->
                              proba[CHOOSE i \in 1..Len(Emotions) : Emotions[i] = e]],
                   den |-> SumSeq(proba)],
              path |-> "model"]

\* what EmotionClassifier(model_path) finds on disk: whether a path is given
\* and exists, and for emotion_model.pkl, feature_scaler.pkl and
\* emotion_model.pth whether the file is there and whether joblib loads it
Artifacts ==
    [model_path : {"none", "missing"}, pkl : {"absent"}, scaler : {"absent"},
     pth : {FALSE}]
    \cup
    [model_path : {"exists"}, pkl : {"absent", "loads", "corrupt"},
     scaler : {"absent", "loads", "corrupt"}, pth : BOOLEAN]

\* as load_model leaving the model in place when the scaler fails to load
LoadModel_KeepsModel(artifact) ==
    IF artifact.pkl = "loads"
    THEN [model |-> "trained", scaler |-> artifact.scaler = "loads"]
    ELSE [model |-> "none", scaler |-> FALSE]

\* load_model: self.model and self.scaler afterwards.  An exception from
\* joblib.load, of the model or of the scaler, sets self.model to None; a
\* .pth file is looked for only when there is no .pkl, and is not loaded
LoadModel(artifact) ==
    IF artifact.pkl = "loads" /\ artifact.scaler # "corrupt"
    THEN [model |-> "trained", scaler |-> artifact.scaler = "loads"]
    ELSE [model |-> "none", scaler |-> FALSE]

\* EmotionClassifier(model_path): load_model runs when the path is given and
\* exists; the object keeps what it was built from for reference
NewEmotionClassifier(artifact) ==
    LET loaded == IF artifact.model_path = "exists"
                  THEN LoadModel(artifact)
                  ELSE [model |-> "none", scaler |-> FALSE]
    IN  [model |-> loaded.model, scaler |-> loaded.scaler, artifact |-> artifact]

\* predict.  extract_features, _predict_with_model and _predict_rule_based
\* each catch Exception themselves, so nothing reaches the except branch of
\* predict (lines 132-139).
Predict(call) ==
    LET features == ExtractFeatures(call.extraction_failed)
    IN  IF call.model # "none"
        THEN PredictWithModel(features, call.proba)
        ELSE PredictRuleBased(call.audio, call.rules_failed)

(***************************************************************************)
(* Classifier runs: one call of predict or of extract_features on one      *)
(* audio signal.  The signal is what the code measures on it (energy,      *)
(* pitch variation, speaking rate) and whether librosa raises on it.       *)
(***************************************************************************)
EnergyLevels == {0, EnergyQuiet - 1, EnergyQuiet, EnergyLoud, EnergyLoud + 1}

PitchLevels == {0, PitchVaried, PitchVaried + 1, PitchWide, PitchWide + 1}

RateLevels == {0, RateFast, RateFast + 1}

Signals ==
    [energy : EnergyLevels, pitch_variation : PitchLevels, speaking_rate : RateLevels]

\* an all-zero signal
Silence == [energy |-> 0, pitch_variation |-> 0, speaking_rate |-> 0]

\* rows of predict_proba: one entry per class the model was fitted on, which
\* are the labels of EmotionModelTrainer, or fewer when the dataset lacked one
Probas ==
    {p \in UNION {[1..k -> 0..MaxWeight] : k \in {Len(Emotions) - 1, Len(Emotions)}} :
        SumSeq(p) > 0}

PredictCalls ==
    [audio : Signals, extraction_failed : BOOLEAN, rules_failed : BOOLEAN,
     model : {"none"}, proba : {<<>>}]
    \cup
    [audio : {Silence}, extraction_failed : BOOLEAN, rules_failed : {FALSE},
     model : {"trained"}, proba : Probas]

ClassifierInit ==
    /\ active_connections = <<>>
    /\ conversation_history = <<>>
    /\ clock = 1
    /\ pc = [c \in Conns |-> "new"]
    /\ session_id = [c \in Conns |-> 0]
    /\ message = [c \in Conns |-> None]
    /\ text_result = [c \in Conns |-> None]
    /\ emotion_result = [c \in Conns |-> None]
    /\ response = [c \in Conns |-> None]
    /\ turn_log = [c \in Conns |-> <<>>]
    /\ inputs = 0
    /\ appended = <<>>
    /\ in_flight = {}
    /\ last_context = None
    /\ store_ops = 0
    /\ invocation \in PredictCalls
    /\ returned = None
    /\ \E artifact \in Artifacts :
         /\ classifier = NewEmotionClassifier(artifact)
         /\ nlp_history = <<>>
         /\ classifier.model = invocation.model

store_vars == <<conversation_history, clock, appended, store_run_vars>>

\* as predict giving up the model once inference has failed
CallPredict_DropsModel ==
    /\ returned = None
    /\ returned' = [op |-> "predict",
                    value |-> Predict([invocation EXCEPT !.model = classifier.model])]
    /\ classifier' = IF returned'.value.path = "model" THEN classifier
                     ELSE [classifier EXCEPT !.model = "none"]
    /\ UNCHANGED <<nlp_history, invocation, store_vars, handler_vars>>

\* predict on the classifier, which reads self.model and assigns nothing
CallPredict ==
    /\ returned = None
    /\ returned' = [op |-> "predict",
                    value |-> Predict([invocation EXCEPT !.model = classifier.model])]
    /\ UNCHANGED <<nlp_history, invocation, classifier, store_vars, handler_vars>>

\* the caller turns to its next call on the same classifier: audio of the
\* same measurements, on which librosa and the model may fail or not
NextCall ==
    /\ returned # None
    /\ returned' = None
    /\ \E extraction_failed \in BOOLEAN,
          rules_failed \in IF classifier.model = "none" THEN BOOLEAN ELSE {FALSE} :
         invocation' = [invocation EXCEPT !.extraction_failed = extraction_failed,
                                          !.rules_failed = rules_failed]
    /\ UNCHANGED <<nlp_history, classifier, store_vars, handler_vars>>

CallExtractFeatures ==
    /\ returned = None
    /\ returned' = [op |-> "extract_features",
                    value |-> ExtractFeatures(invocation.extraction_failed)]
    /\ UNCHANGED <<nlp_history, invocation, classifier, store_vars, handler_vars>>

ClassifierNext ==
    \/ CallPredict
    \/ CallExtractFeatures
    \/ NextCall

ClassifierSpec == ClassifierInit /\ [][ClassifierNext]_vars

(***************************************************************************)
(* Composer runs: one call of _generate_empathetic_response with a given   *)
(* context, or one generate_response on a fresh manager.                   *)
(***************************************************************************)
\* emotions passed to the composer: labels with a pool and one without
ComposerEmotions == {"happy", "sad", "neutral", "calm"}

\* languages: with pools, without pools, and a JSON list in place of a string
ComposerLanguages == {"en", "te", "fr", UnhashableLanguage}

\* contexts: none, one user turn, turns whose emotions differ within the
\* last three entries, and turns whose emotions differ only before them
ComposerContexts ==
    {<<>>,
     <<UserEntry(1, "hi", "happy", "en")>>,
     <<UserEntry(1, "hi", "happy", "en"),
       BotEntry(2, Template("happy", "en", 1), "happy"),
       UserEntry(3, "hi", "sad", "en")>>,
     <<UserEntry(1, "hi", "sad", "en"),
       UserEntry(2, "hi", "sad", "en"),
       UserEntry(3, "hi", "happy", "en")>>,
     <<UserEntry(1, "hi", "sad", "en"),
       UserEntry(2, "hi", "happy", "en"),
       BotEntry(3, Template("happy", "en", 1), "happy"),
       UserEntry(4, "hi", "happy", "en")>>}

ComposerCalls ==
    [text : {"hi"}, emotion : ComposerEmotions, language : ComposerLanguages,
     context : ComposerContexts, choice : RandomChoices]

ComposerInit ==
    /\ active_connections = <<>>
    /\ conversation_history = <<>>
    /\ clock = 1
    /\ pc = [c \in Conns |-> "new"]
    /\ session_id = [c \in Conns |-> 0]
    /\ message = [c \in Conns |-> None]
    /\ text_result = [c \in Conns |-> None]
    /\ emotion_result = [c \in Conns |-> None]
    /\ response = [c \in Conns |-> None]
    /\ turn_log = [c \in Conns |-> <<>>]
    /\ inputs = 0
    /\ appended = <<>>
    /\ in_flight = {}
    /\ last_context = None
    /\ store_ops = 0
    /\ invocation \in ComposerCalls
    /\ returned = None
    /\ classifier = None
    /\ nlp_history = <<>>

CallGenerateEmpatheticResponse ==
    /\ returned = None
    /\ returned' =
         [op |-> "_generate_empathetic_response",
          value |-> GenerateEmpatheticResponse(invocation.text, invocation.emotion,
                        invocation.language, invocation.context, invocation.choice)]
    /\ UNCHANGED <<nlp_history, invocation, classifier, store_vars, handler_vars>>

\* generate_response for session 1 of a manager that holds no session; the
\* value is the returned dict, or the exception that escapes the call
FirstGenerateResponse ==
    /\ returned = None
    /\ LET out == GenerateResponse(conversation_history, clock, invocation.text,
                      invocation.emotion, 1, invocation.language, invocation.choice)
       IN  /\ conversation_history' = out.history
           /\ clock' = out.clock
           /\ appended' = LogAppended(appended, 1, out.entries)
           /\ returned' =
                [op |-> "generate_response",
                 value |-> IF out.raised
                           THEN [raised |-> TRUE, error |-> out.error]
                           ELSE out.result]
    /\ UNCHANGED <<nlp_history, invocation, classifier, store_run_vars, handler_vars>>

ComposerNext ==
    \/ CallGenerateEmpatheticResponse
    \/ FirstGenerateResponse

ComposerSpec == ComposerInit /\ [][ComposerNext]_vars

(***************************************************************************)
(* What a turn did, read from its log.                                     *)
(***************************************************************************)
IsEvent(x) == x.type # "call"

IsCall(x) == x.type = "call"

Events(c) == SelectSeq(turn_log[c], IsEvent)

Calls(c) == SelectSeq(turn_log[c], IsCall)

EventTypes(c) == [i \in 1..Len(Events(c)) |-> Events(c)[i].type]

Services(c) == {Calls(c)[i].service : i \in 1..Len(Calls(c))}

StageFailed(c, service) ==
    \E i \in 1..Len(Calls(c)) : Calls(c)[i].service = service /\ Calls(c)[i].failed

\* a service failed inside, or an exception reached the handler
AnyFailure(c) ==
    \/ \E i \in 1..Len(Calls(c)) : Calls(c)[i].failed
    \/ "error" \in Range(EventTypes(c))

InTurn(c) == message[c] # None

AudioTurn(c) == InTurn(c) /\ message[c].type = "audio"

TextTurn(c) == InTurn(c) /\ message[c].type = "text"

\* the turn of the message read last has ended and the handler waits again
TurnOver(c) == InTurn(c) /\ pc[c] = "receive"

AudioOrder == <<"stt_result", "emotion_result", "response_generated", "tts_result">>

\* how many stages of the audio branch are behind a handler at pc
StagesDone(p) ==
    CASE p = "stt" -> 0
      [] p = "emotion" -> 1
      [] p = "compose" -> 2
      [] p = "tts" -> 3
      [] OTHER -> 4

Connected(c) == c \in Range(active_connections)

\* the user turn and the bot turn of c's current turn are adjacent in h
TurnStoredIn(h, c) ==
    LET history == HistoryOf(h, session_id[c])
    IN  \E i \in 1..(Len(history) - 1) :
          /\ "user_text" \in DOMAIN history[i]
          /\ history[i].user_text = text_result[c].text
          /\ history[i].emotion = emotion_result[c].emotion
          /\ "bot_response" \in DOMAIN history[i + 1]
          /\ history[i + 1].bot_response = response[c].text

(***************************************************************************)
(* C1.  An audio turn in which no stage fails emits exactly stt_result,    *)
(* emotion_result, response_generated, tts_result, one each, in this       *)
(* order: at every point of the turn the events sent so far are the events *)
(* of the stages behind the handler, and at its end all four.              *)
(***************************************************************************)
C1_AudioEventOrder ==
    \A c \in Conns :
        (AudioTurn(c) /\ ~AnyFailure(c)) =>
            EventTypes(c) = SubSeq(AudioOrder, 1, StagesDone(pc[c]))

C1_Witness ==
    \E c \in Conns :
        TurnOver(c) /\ AudioTurn(c) /\ ~AnyFailure(c) /\ EventTypes(c) = AudioOrder

(***************************************************************************)
(* C2.  When the synthesis service fails in an audio turn, the turn's      *)
(* events are stt_result, emotion_result, response_generated and then an   *)
(* error event that names synthesis, and no tts_result.                    *)
(***************************************************************************)
C2_SynthesisFailureEmitsError ==
    \A c \in Conns :
        (TurnOver(c) /\ AudioTurn(c) /\ StageFailed(c, "tts")) =>
            /\ EventTypes(c) = <<"stt_result", "emotion_result", "response_generated", "error">>
            /\ Events(c)[4].message = "tts"

C4_FailureKeepsConnection ==
    \A c \in Conns :
        (InTurn(c) /\ AnyFailure(c)) =>
            /\ pc[c] \in {"emotion", "compose", "tts", "receive"}
            /\ Connected(c)
            /\ (pc[c] = "receive" /\ inputs < MaxInputs) => ENABLED ReceiveMessage(c)

\* a clean audio turn on a connection whose earlier turn had a failed
\* transcription: the session holds that turn's empty user text
C4_Witness ==
    \E c \in Conns :
        /\ TurnOver(c) /\ AudioTurn(c) /\ ~AnyFailure(c) /\ EventTypes(c) = AudioOrder
        /\ \E i \in 1..Len(HistoryOf(conversation_history, session_id[c])) :
              LET e == conversation_history[session_id[c]][i]
              IN  "user_text" \in DOMAIN e /\ e.user_text = ""

(***************************************************************************)
(* C5.  When transcription fails in an audio turn, the only event of the   *)
(* turn is an error event, the turn is over, and nothing was stored.       *)
(***************************************************************************)
C5_TranscriptionFailureAborts ==
    \A c \in Conns :
        (AudioTurn(c) /\ StageFailed(c, "stt")) =>
            /\ EventTypes(c) = <<"error">>
            /\ pc[c] = "receive"
            /\ "compose" \notin Services(c)

(***************************************************************************)
(* C6.  A text turn calls no service but composition, so never synthesis;  *)
(* when composition returns, its only event is one text_response; and the  *)
(* composition step stores the user turn with emotion "neutral".           *)
(***************************************************************************)
C6_TextTurnState ==
    \A c \in Conns :
        TextTurn(c) =>
            /\ Services(c) \subseteq {"compose"}
            /\ pc[c] \in {"text", "receive"}
            /\ (TurnOver(c) /\ "compose" \in Services(c) /\ "error" \notin Range(EventTypes(c)))
                  => EventTypes(c) = <<"text_response">>

C6_TextTurnStep ==
    \A c \in Conns :
        (pc[c] = "text" /\ message[c].text # Absent /\ pc'[c] # "text") =>
            LET old == HistoryOf(appended, session_id[c])
                new == HistoryOf(appended', session_id[c])
            IN  /\ Len(new) > Len(old)
                /\ "user_text" \in DOMAIN new[Len(old) + 1]
                /\ new[Len(old) + 1].user_text = message[c].text
                /\ new[Len(old) + 1].emotion = "neutral"
                /\ new[Len(old) + 1] \in Range(HistoryOf(conversation_history', session_id[c]))

C6_TextTurn == []C6_TextTurnState /\ [][C6_TextTurnStep]_vars

C6_Witness ==
    \E c \in Conns :
        /\ TurnOver(c) /\ TextTurn(c) /\ EventTypes(c) = <<"text_response">>
        /\ \E i \in 1..Len(HistoryOf(conversation_history, session_id[c])) :
              LET e == conversation_history[session_id[c]][i]
              IN  "user_text" \in DOMAIN e /\ e.user_text = "hi" /\ e.emotion = "neutral"

(***************************************************************************)
(* C7.  Every session's stored history has at most max_history entries.    *)
(***************************************************************************)
C7_HistoryBounded ==
    \A s \in DOMAIN conversation_history :
        Len(conversation_history[s]) <= max_history

\* the cap has been at work: more entries were appended than are stored
C7_Witness ==
    \E s \in DOMAIN conversation_history :
        /\ Len(appended[s]) > max_history
        /\ Len(conversation_history[s]) = max_history

(***************************************************************************)
(* C8.  Once more than max_history entries have been appended to a         *)
(* session, its history is exactly the max_history entries appended last,  *)
(* in the order they were appended.                                        *)
(***************************************************************************)
C8_KeepsMostRecent ==
    \A s \in DOMAIN conversation_history :
        Len(appended[s]) > max_history =>
            /\ Len(conversation_history[s]) = max_history
            /\ conversation_history[s] = LastN(appended[s], max_history)

\* eviction has run more than once
C8_Witness ==
    \E s \in DOMAIN conversation_history :
        /\ Len(appended[s]) >= max_history + 2
        /\ conversation_history[s] = LastN(appended[s], max_history)

(***************************************************************************)
(* C9.  With several generate_response requests in flight on one session,  *)
(* every step that appends to a session adds exactly its own entries at    *)
(* the end of what was stored, drops only from the front, and leaves at    *)
(* most max_history entries: no entry is lost and the stored order is the  *)
(* order in which the appends ran.                                         *)
(***************************************************************************)
C9_AppendStep ==
    \A s \in DOMAIN appended' :
        LET old == HistoryOf(appended, s)
            new == appended'[s]
        IN  Len(new) > Len(old) =>
              /\ SubSeq(new, 1, Len(old)) = old
              /\ s \in DOMAIN conversation_history'
              /\ conversation_history'[s] =
                    LastN(HistoryOf(conversation_history, s)
                            \o SubSeq(new, Len(old) + 1, Len(new)), max_history)
              /\ Len(conversation_history'[s]) <= max_history

C9_AtomicAppend == [][C9_AppendStep]_vars

\* the request that arrived first on session 1 still waits, and the one that
\* arrived after it has run on the same session and pushed it past the cap
C9_Witness ==
    \E r \in in_flight :
        /\ r.id = 1 /\ r.session_id = 1 /\ store_ops = 2
        /\ 1 \in DOMAIN appended
        /\ Len(appended[1]) >= max_history + 2
        /\ Len(conversation_history[1]) = max_history

(***************************************************************************)
(* C10.  A call of _get_conversation_context changes no session's stored   *)
(* history and creates no session, and a call that follows another call    *)
(* for the same session with no change of the store in between returns     *)
(* the same sequence.                                                      *)
(***************************************************************************)
C10_ReadStep ==
    (last_context' # None /\ store_ops' # store_ops) =>
        /\ conversation_history' = conversation_history
        /\ (last_context # None /\ last_context.session_id = last_context'.session_id)
              => last_context'.context = last_context.context

C10_ContextReadOnly == [][C10_ReadStep]_vars

\* a second read in a row of a session that holds entries
C10_Witness ==
    /\ last_context # None
    /\ last_context.reads >= 2
    /\ last_context.context # <<>>

(***************************************************************************)
(* C11.  What _get_conversation_context returns for a session that holds   *)
(* n entries is its last min(n, context_window) entries in stored order,   *)
(* and the empty sequence for a session that is unknown or empty.          *)
(***************************************************************************)
C11_RecentContext ==
    last_context # None =>
        LET history == HistoryOf(conversation_history, last_context.session_id)
            n == Len(history)
            k == IF n < context_window THEN n ELSE context_window
        IN  /\ Len(last_context.context) = k
            /\ \A i \in 1..k : last_context.context[i] = history[n - k + i]

\* a read of a session that holds more entries than the window
C11_Witness ==
    /\ last_context # None
    /\ Len(HistoryOf(conversation_history, last_context.session_id)) > context_window
    /\ Len(last_context.context) = context_window

(***************************************************************************)
(* C12.  Session lifecycle.  In every step and for every session id: a     *)
(* clear_session of the id leaves it without turns, and changes nothing    *)
(* when the id is unknown; any other step keeps a known session, its       *)
(* turns followed by the entries the step appended (up to the cap), so     *)
(* nothing expires and a disconnect removes nothing; and a step that       *)
(* appends to an unknown id, never seen or cleared before, creates the     *)
(* session holding exactly the entries appended.                           *)
(***************************************************************************)
C12_LifecycleStep ==
    \A s \in DOMAIN conversation_history \cup DOMAIN conversation_history'
               \cup StoreSessions :
        LET known == s \in DOMAIN conversation_history
            old == HistoryOf(conversation_history, s)
            new == HistoryOf(conversation_history', s)
            logged == HistoryOf(appended, s)
            added == IF s \in DOMAIN appended' /\ Len(appended'[s]) > Len(logged)
                     THEN SubSeq(appended'[s], Len(logged) + 1, Len(appended'[s]))
                     ELSE <<>>
        IN  IF CallClearSession(s)
            THEN /\ new = <<>>
                 /\ ~known => conversation_history' = conversation_history
            ELSE /\ known =>
                      /\ s \in DOMAIN conversation_history'
                      /\ new = LastN(old \o added, max_history)
                 /\ (~known /\ s \in DOMAIN conversation_history') =>
                      /\ added # <<>>
                      /\ new = added

C12_SessionLifecycle == [][C12_LifecycleStep]_vars

\* session 1 held entries up to the cap, was cleared, and holds the one entry
\* appended after that
C12_Witness ==
    /\ 1 \in DOMAIN conversation_history
    /\ Len(conversation_history[1]) = 1
    /\ conversation_history[1][1].timestamp > max_history - PrefillSlack

(***************************************************************************)
(* C13.  Sessions are independent: a step that runs generate_response,     *)
(* _add_to_history (with its eviction) or clear_session on session A       *)
(* leaves every other session as it was, its stored history and whether    *)
(* it exists, whatever ran before on either session.                       *)
(***************************************************************************)
C13_IndependentStep ==
    \A A \in StoreSessions :
        (\/ CallAddToHistory(A)
         \/ CallClearSession(A)
         \/ \E r \in in_flight : r.session_id = A /\ RunGenerateResponse(r)) =>
            \A B \in (DOMAIN conversation_history \cup DOMAIN conversation_history'
                         \cup StoreSessions) \ {A} :
                /\ B \in DOMAIN conversation_history <=> B \in DOMAIN conversation_history'
                /\ HistoryOf(conversation_history', B) = HistoryOf(conversation_history, B)

C13_SessionsIndependent == [][C13_IndependentStep]_vars

\* one session has gone through eviction while another one holds entries
C13_Witness ==
    \E A, B \in DOMAIN conversation_history :
        /\ A # B
        /\ Len(appended[A]) > max_history
        /\ conversation_history[B] # <<>>

(***************************************************************************)
(* C14.  Whatever predict returns, in model mode, in rule-based mode and   *)
(* after a failure inside it, for every signal, silence included: the      *)
(* label is one of the seven labels, the probability mapping has exactly   *)
(* the seven labels as keys, and its values sum to 1.                      *)
(***************************************************************************)
C14_PredictWellFormed ==
    (returned # None /\ returned.op = "predict") =>
        LET labels == {"neutral", "happy", "sad", "angry", "fear", "surprise", "disgust"}
            probabilities == returned.value.probabilities
        IN  /\ returned.value.emotion \in labels
            /\ DOMAIN probabilities.num = labels
            /\ probabilities.den > 0
            /\ Total(probabilities.num) = probabilities.den

\* the rule-based answer for an all-zero signal
C14_Witness ==
    /\ returned # None /\ returned.op = "predict"
    /\ invocation.audio = Silence /\ invocation.model = "none"
    /\ returned.value.path = "rule_based"
    /\ returned.value.emotion = "sad"

(***************************************************************************)
(* C15.  The label predict returns is an arg-max of the probability        *)
(* mapping it returns: no label has a larger probability; and when the     *)
(* rules chose the label, every other label has a smaller one.             *)
(***************************************************************************)
C15_LabelIsArgMax ==
    (returned # None /\ returned.op = "predict") =>
        LET num == returned.value.probabilities.num
            label == returned.value.emotion
        IN  /\ \A e \in DOMAIN num : num[e] <= num[label]
            /\ returned.value.path \in {"rule_based", "rule_based_no_audio"} =>
                  \A e \in DOMAIN num \ {label} : num[e] < num[label]

\* the model's answer when the last label alone has the largest probability
C15_Witness ==
    /\ returned # None /\ returned.op = "predict"
    /\ returned.value.path = "model"
    /\ returned.value.emotion = "disgust"
    /\ \A e \in EmotionSet \ {"disgust"} :
          returned.value.probabilities.num[e] < returned.value.probabilities.num["disgust"]

(***************************************************************************)
(* C16.  Whenever a step inside predict fails (feature extraction, the     *)
(* model, the rules), predict returns "neutral" with confidence 0 and the  *)
(* uniform mapping, 1/7 for each label.                                    *)
(***************************************************************************)
C16_FailureYieldsUniformNeutral ==
    (/\ returned # None /\ returned.op = "predict"
     /\ \/ invocation.extraction_failed
        \/ invocation.model = "none" /\ invocation.rules_failed
        \/ invocation.model # "none" /\ returned.value.path # "model") =>
        /\ returned.value.emotion = "neutral"
        /\ returned.value.confidence.num = 0
        /\ \A e \in EmotionSet :
              returned.value.probabilities.num[e] * 7 = returned.value.probabilities.den

(***************************************************************************)
(* C17.  When the rules run on an audio signal, label and confidence are   *)
(* those of the table read top to bottom: energy > 0.01 and pitch          *)
(* variation > 50 give happy 0.7 when the speaking rate > 0.1 and angry    *)
(* 0.7 otherwise; else energy < 0.005 gives sad 0.6; else pitch variation  *)
(* > 100 gives surprise 0.65; otherwise neutral 0.5.                       *)
(***************************************************************************)
C17_DecisionTable ==
    (returned # None /\ returned.op = "predict" /\ returned.value.path = "rule_based") =>
        LET energy == invocation.audio.energy                    \* thousandths
            pitch_variation == invocation.audio.pitch_variation
            speaking_rate == invocation.audio.speaking_rate      \* hundredths
            row == IF energy > 10 /\ pitch_variation > 50 /\ speaking_rate > 10
                     THEN <<"happy", 70>>
                   ELSE IF energy > 10 /\ pitch_variation > 50 THEN <<"angry", 70>>
                   ELSE IF energy < 5 THEN <<"sad", 60>>
                   ELSE IF pitch_variation > 100 THEN <<"surprise", 65>>
                   ELSE <<"neutral", 50>>
        IN  /\ returned.value.emotion = row[1]
            /\ returned.value.confidence.num * 100 = row[2] * returned.value.confidence.den

\* the fourth row: neither loud and varied nor quiet, with a wide pitch
C17_Witness ==
    /\ returned # None /\ returned.op = "predict"
    /\ returned.value.path = "rule_based"
    /\ invocation.audio.energy <= 10 /\ invocation.audio.energy >= 5
    /\ returned.value.emotion = "surprise"

(***************************************************************************)
(* C18.  extract_features returns a vector of one fixed length: when the   *)
(* computation fails the vector is all zero and as long as the vector a    *)
(* successful computation produces.                                        *)
(***************************************************************************)
C18_FeatureLengthFixed ==
    (returned # None /\ returned.op = "extract_features") =>
        /\ returned.value.length = ExtractFeatures(FALSE).length
        /\ invocation.extraction_failed => returned.value.all_zero

(***************************************************************************)
(* C19.  For a language with pools (en, te), the template                  *)
(* _generate_empathetic_response draws comes from the pool of exactly the  *)
(* given emotion and language when that emotion has a pool, and from the   *)
(* "neutral" pool of the same language when it has none.                   *)
(***************************************************************************)
C19_PoolSelection ==
    (/\ returned # None /\ returned.op = "_generate_empathetic_response"
     /\ invocation.language \in {"en", "te"}) =>
        LET labels == {"neutral", "happy", "sad", "angry", "fear", "surprise", "disgust"}
            pool == IF invocation.emotion \in labels THEN invocation.emotion ELSE "neutral"
        IN  /\ ~returned.value.raised
            /\ returned.value.text.kind = "template"
            /\ returned.value.text.emotion = pool
            /\ returned.value.text.language = invocation.language
            /\ returned.value.text.idx \in 1..PoolSize

\* an emotion without a pool, composed in Telugu after a change of emotion
C19_Witness ==
    /\ returned # None /\ returned.op = "_generate_empathetic_response"
    /\ invocation.emotion = "calm" /\ invocation.language = "te"
    /\ Len(invocation.context) = 3
    /\ returned.value.text.emotion = "neutral"
    /\ returned.value.text.language = "te"

(***************************************************************************)
(* C20.  _generate_empathetic_response with emotion "happy", language      *)
(* "en" and an empty context returns a template of the happy/en pool as    *)
(* it stands in the pool, whatever random.choice draws; and so does        *)
(* generate_response with "happy" and "en" on the first turn of a fresh    *)
(* session.                                                                *)
(***************************************************************************)
C20_HappyEnglishUnmodified ==
    (/\ returned # None
     /\ invocation.emotion = "happy" /\ invocation.language = "en"
     /\ \/ returned.op = "_generate_empathetic_response" /\ invocation.context = <<>>
        \/ returned.op = "generate_response") =>
        LET text == IF returned.op = "generate_response"
                    THEN returned.value.text
                    ELSE IF returned.value.raised THEN None ELSE returned.value.text
        IN  \E i \in 1..PoolSize : text = Template("happy", "en", i)

\* the last template of the pool, drawn with an empty context
C20_Witness ==
    /\ returned # None /\ returned.op = "_generate_empathetic_response"
    /\ invocation.emotion = "happy" /\ invocation.language = "en"
    /\ invocation.context = <<>>
    /\ returned.value.text = Template("happy", "en", PoolSize)

(***************************************************************************)
(* C21.  _generate_empathetic_response with language en or te and a        *)
(* non-empty context: when the "emotion" values of the last 3 context      *)
(* entries hold more than one distinct value, the reply is the language's  *)
(* fixed phrase followed by the drawn template lower-cased, which differs  *)
(* from the template; when they hold at most one, the reply is the drawn   *)
(* template as it stands in the pool.                                      *)
(***************************************************************************)
C21_ContextAdaptation ==
    (/\ returned # None /\ returned.op = "_generate_empathetic_response"
     /\ invocation.language \in {"en", "te"}) =>
        LET context == invocation.context
            first == IF Len(context) > 3 THEN Len(context) - 2 ELSE 1
            seen == {context[i].emotion :
                        i \in {j \in first..Len(context) :
                                  "emotion" \in DOMAIN context[j]}}
            pool == IF invocation.emotion \in EmotionSet
                    THEN invocation.emotion ELSE "neutral"
            template == Template(pool, invocation.language, invocation.choice)
            reply == returned.value.text
        IN  /\ ~returned.value.raised
            /\ Cardinality(seen) > 1 =>
                  /\ reply.prefix = "support"
                  /\ reply.lowered = (invocation.language = "en")
                  /\ reply # template
                  /\ [reply EXCEPT !.prefix = "", !.lowered = FALSE] = template
            /\ Cardinality(seen) <= 1 => reply = template

\* the last three turns are sad, sad, happy and the reply is composed in English
C21_Witness ==
    /\ returned # None /\ returned.op = "_generate_empathetic_response"
    /\ invocation.language = "en"
    /\ Len(invocation.context) = 3
    /\ \A i \in 1..3 : "emotion" \in DOMAIN invocation.context[i]
    /\ <<invocation.context[1].emotion, invocation.context[2].emotion,
         invocation.context[3].emotion>> = <<"sad", "sad", "happy">>
    /\ returned.value.text.prefix = "support"
    /\ returned.value.text.lowered

(***************************************************************************)
(* C22.  generate_response never raises: whenever composing the reply      *)
(* fails inside it (a language without pools, a language that is not a     *)
(* string), it returns the fallback sentence of the requested language,    *)
(* the English one when the language has none, with emotion_context        *)
(* "neutral".                                                              *)
(***************************************************************************)
C22_NeverRaises ==
    (returned # None /\ returned.op = "generate_response") =>
        /\ "raised" \notin DOMAIN returned.value
        /\ invocation.language \notin {"en", "te"} =>
              /\ returned.value.text.kind = "fallback"
              /\ returned.value.text.language = "en"
              /\ returned.value.emotion_context = "neutral"

(***************************************************************************)
(* C23.  From every state of a connection's handler (waiting for a         *)
(* message, or at any stage of a turn) a client disconnect takes the       *)
(* handler to the closed state.  The step that closes it removes the       *)
(* connection from active_connections, where it stood exactly once;        *)
(* leaves every other connection's membership of the list and handler      *)
(* state as they were; and leaves the stored turns as the stage that was   *)
(* running left them (nothing is stored, trimmed or deleted by the         *)
(* disconnect itself, in any session).  A closed handler stays closed and  *)
(* emits nothing further.  (A handler that an uncaught exception ended is  *)
(* no handler state: it reads no disconnect.)  That the closing step can   *)
(* be taken is stated                                                      *)
(* for the handler states whose step calls no composer (waiting,           *)
(* transcribing, classifying, synthesising); for the two composing states  *)
(* it is shown by the witness.                                             *)
(***************************************************************************)
C23_Live == {"receive", "stt", "emotion", "compose", "tts", "text"}

C23_Composing == {"compose", "text"}

\* the handler of c takes a step that ends in the closed state
C23_Closes(c) ==
    /\ \/ ReceiveDisconnect(c)
       \/ AudioSpeechToText(c)
       \/ AudioEmotion(c)
       \/ AudioGenerateResponse(c)
       \/ AudioTextToSpeech(c)
       \/ TextGenerateResponse(c)
    /\ pc'[c] = "closed"

C23_DisconnectState ==
    \A c \in Conns :
        /\ pc[c] \in C23_Live \ C23_Composing => ENABLED C23_Closes(c)
        /\ pc[c] \in C23_Live => Connected(c)
        /\ pc[c] \in {"new", "closed"} => ~Connected(c)
        /\ pc[c] = "closed" => turn_log[c] = <<>> /\ message[c] = None

C23_DisconnectStep ==
    \A c \in Conns :
        /\ (pc[c] # "closed" /\ pc'[c] = "closed") =>
              /\ Cardinality({i \in 1..Len(active_connections) :
                                 active_connections[i] = c}) = 1
              /\ ~Connected(c)'
              /\ Len(active_connections') = Len(active_connections) - 1
              /\ \A d \in Conns \ {c} :
                    /\ Connected(d)' <=> Connected(d)
                    /\ pc'[d] = pc[d]
                    /\ turn_log'[d] = turn_log[d]
              /\ \/ conversation_history' = conversation_history
                 \/ /\ pc[c] \in C23_Composing
                    /\ \E choice \in RandomChoices :
                         conversation_history' =
                             GenerateResponse(conversation_history, clock,
                                 IF pc[c] = "text" THEN message[c].text
                                 ELSE text_result[c].text,
                                 IF pc[c] = "text" THEN "neutral"
                                 ELSE emotion_result[c].emotion,
                                 session_id[c], MessageLanguage(message[c]),
                                 choice).history
        /\ pc[c] = "closed" => pc'[c] = "closed" /\ turn_log'[c] = <<>>

C24_PrecedingEvent(service) ==
    CASE service = "emotion" -> "stt_result"
      [] service = "compose" -> "emotion_result"
      [] service = "tts" -> "response_generated"
      [] OTHER -> "none"

C24_EventsBeforeNextStage ==
    \A c \in Conns :
        AudioTurn(c) =>
            \A i \in 1..Len(turn_log[c]) :
                LET x == turn_log[c][i]
                IN  /\ IsCall(x) =>
                          IF x.service = "stt" THEN i = 1
                          ELSE /\ i > 1
                               /\ turn_log[c][i - 1].type = C24_PrecedingEvent(x.service)
                    /\ (IsEvent(x) /\ i > 1) => IsCall(turn_log[c][i - 1])

\* a whole audio turn: four calls, each followed by its event
C24_Witness ==
    \E c \in Conns :
        /\ AudioTurn(c) /\ TurnOver(c)
        /\ Len(turn_log[c]) = 8
        /\ EventTypes(c) = AudioOrder

C26_EmotionFailureDegrades ==
    \A c \in Conns :
        (AudioTurn(c) /\ StageFailed(c, "emotion")) =>
            \A i \in 1..Len(turn_log[c]) :
                LET x == turn_log[c][i]
                IN  IsCall(x) =>
                      /\ x.service = "emotion" =>
                            /\ i < Len(turn_log[c])
                            /\ turn_log[c][i + 1] =
                                  [type |-> "emotion_result", emotion |-> "neutral",
                                   confidence |-> 0]
                            /\ i + 1 = Len(turn_log[c]) => pc[c] = "compose"
                      /\ x.service \in {"compose", "tts"} =>
                            x.args.emotion = "neutral"

\* emotion detection failed and the turn ran through to tts_result
C26_Witness ==
    \E c \in Conns :
        /\ AudioTurn(c) /\ TurnOver(c)
        /\ StageFailed(c, "emotion")
        /\ EventTypes(c) = AudioOrder
        /\ \E i \in 1..Len(turn_log[c]) :
              /\ IsCall(turn_log[c][i]) /\ turn_log[c][i].service = "tts"
              /\ turn_log[c][i].args.emotion = "neutral"

(***************************************************************************)
(* C27.  When the transcription model or the synthesis model fails to      *)
(* load, AudioProcessor() raises and the import of the application ends    *)
(* with that exception; every AudioProcessor of an application that        *)
(* serves a request (a websocket was accepted) holds a transcription       *)
(* model and a synthesis model.                                            *)
(***************************************************************************)
C27_StartupAborts ==
    /\ (returned # None /\ returned.op = "import app.main") =>
          /\ (\E i \in 1..Len(AudioProcessorModules) :
                 invocation.failures[i] \in {"stt", "tts"}) => returned.value.raised
          /\ \A i \in 1..Len(returned.value.processors) :
                 /\ returned.value.processors[i].stt_model # "None"
                 /\ returned.value.processors[i].tts_model # "None"
    /\ (\E c \in Conns : pc[c] # "new") =>
          /\ returned # None /\ returned.op = "import app.main"
          /\ ~returned.value.raised
          /\ Len(returned.value.processors) = Len(AudioProcessorModules)

\* the routers' processors were built, the synthesis model of main.py's own
\* processor failed to load, and the import ended with the exception
C27_Witness ==
    /\ returned # None /\ returned.op = "import app.main"
    /\ invocation.failures = <<"none", "none", "none", "tts">>
    /\ returned.value.raised
    /\ Len(returned.value.processors) = 3
    /\ \A c \in Conns : pc[c] = "new"

(***************************************************************************)
(* C28 as stated.  For a session with at least one stored turn,            *)
(* get_conversation_summary reports a count equal to the number of turns   *)
(* stored for the session (user turns and bot turns), the distinct         *)
(* emotions and languages of the stored turns, and the timestamps of the   *)
(* oldest and the newest stored turn; the call leaves the store as it was. *)
(***************************************************************************)
C28_AsStatedStep ==
    (returned' # returned /\ returned'.op = "get_conversation_summary") =>
        LET history == HistoryOf(conversation_history, returned'.session_id)
            summary == returned'.value
        IN  /\ conversation_history' = conversation_history
            /\ history # <<>> =>
                  /\ summary.total_exchanges = Len(history)
                  /\ summary.session_start = history[1].timestamp
                  /\ summary.session_end = history[Len(history)].timestamp

C28_SummaryAsStated == [][C28_AsStatedStep]_vars

(***************************************************************************)
(* C28 as amended.  For a session with at least one stored turn,           *)
(* get_conversation_summary reports a count equal to the number of user    *)
(* turns stored for the session (bot turns are not counted), the set of    *)
(* distinct emotions and the set of distinct languages of the stored user  *)
(* turns, and the timestamps of the oldest and the newest stored turn,     *)
(* user or bot; the call leaves every session as it was.                   *)
(***************************************************************************)
C28_SummaryStep ==
    (returned' # returned /\ returned'.op = "get_conversation_summary") =>
        LET history == HistoryOf(conversation_history, returned'.session_id)
            user_turns == SelectSeq(history, LAMBDA e : "user_text" \in DOMAIN e)
            summary == returned'.value
        IN  /\ conversation_history' = conversation_history
            /\ history # <<>> =>
                  /\ summary.total_exchanges = Len(user_turns)
                  /\ summary.emotions_detected =
                        {user_turns[i].emotion : i \in 1..Len(user_turns)}
                  /\ summary.languages_used =
                        {user_turns[i].language : i \in 1..Len(user_turns)}
                  /\ \A i \in 1..Len(history) :
                        /\ summary.session_start <= history[i].timestamp
                        /\ summary.session_end >= history[i].timestamp
                  /\ \E i, j \in 1..Len(history) :
                        /\ summary.session_start = history[i].timestamp
                        /\ summary.session_end = history[j].timestamp

C28_Summary == [][C28_SummaryStep]_vars

\* the summary of a full session whose oldest turns were trimmed away: 50
\* stored turns, of which the user's are counted, two emotions, and a start
\* later than the first turn ever appended
C28_Witness ==
    /\ returned # None /\ returned.op = "get_conversation_summary"
    /\ returned.at = store_ops
    /\ Len(HistoryOf(conversation_history, returned.session_id)) = max_history
    /\ returned.value.total_exchanges < max_history
    /\ returned.value.emotions_detected = {"happy", "sad"}
    /\ returned.value.session_start > 1

(***************************************************************************)
(* C29.  In model mode, when inference fails, predict returns what the     *)
(* rule table gives for the energy, pitch variation and speaking rate of   *)
(* the signal it was called with: the table's emotion and confidence.      *)
(***************************************************************************)
C29_FallbackUsesSignal ==
    (/\ returned # None /\ returned.op = "predict"
     /\ classifier.model = "trained"
     /\ returned.value.path # "model") =>
        LET row == RuleBasedDecision(invocation.audio)
        IN  /\ returned.value.emotion = row.emotion
            /\ returned.value.confidence = [num |-> row.confidence, den |-> 100]

(***************************************************************************)
(* C30.  The classifier is in model mode exactly when its constructor was  *)
(* given a path that exists, the directory holds emotion_model.pkl, and    *)
(* loading went through without an error; in every other case (no path, a  *)
(* missing path, no model file, only a .pth file, an error while loading)  *)
(* it is in rule-based mode.  No predict call changes the mode, however    *)
(* many are made and whatever they return.                                 *)
(***************************************************************************)
C30_ModeAtConstruction ==
    classifier # None =>
        LET artifact == classifier.artifact
            load_error == artifact.pkl = "corrupt" \/ artifact.scaler = "corrupt"
        IN  classifier.model = "trained" <=>
                /\ artifact.model_path = "exists"
                /\ artifact.pkl # "absent"
                /\ ~load_error

C30_ModeStep == classifier' = classifier

C30_ModeFixed == []C30_ModeAtConstruction /\ [][C30_ModeStep]_vars

\* a classifier built from a directory holding a loadable emotion_model.pkl
\* beside a .pth file, after a predict call in which inference failed: still
\* in model mode
C30_Witness ==
    /\ classifier # None /\ classifier.model = "trained"
    /\ classifier.artifact.pth
    /\ returned # None /\ returned.op = "predict"
    /\ returned.value.path = "rule_based_no_audio"

(***************************************************************************)
(* C39.  When predict answers by the rules (no model loaded, or the model  *)
(* path fell back to them), the label is one of happy, angry, sad,         *)
(* surprise and neutral, never fear or disgust, and it is surprise only    *)
(* on audio with 0.005 <= energy <= 0.01 and pitch variation > 100.        *)
(***************************************************************************)
C39_RuleBasedPaths == {"rule_based", "rule_based_no_audio", "rule_based_error"}

C39_RuleBasedLabels ==
    (returned # None /\ returned.op = "predict"
        /\ returned.value.path \in C39_RuleBasedPaths) =>
        /\ returned.value.emotion \in {"happy", "angry", "sad", "surprise", "neutral"}
        /\ returned.value.emotion = "surprise" =>
              /\ invocation.audio # None
              /\ invocation.audio.energy >= 5          \* thousandths
              /\ invocation.audio.energy <= 10
              /\ invocation.audio.pitch_variation > 100

\* the rules answered surprise at the upper edge of the energy band
C39_Witness ==
    /\ returned # None /\ returned.op = "predict"
    /\ classifier.model = "none"
    /\ returned.value.path = "rule_based"
    /\ returned.value.emotion = "surprise"
    /\ invocation.audio.energy = 10

(***************************************************************************)
(* C36.  In every session's stored history every user turn is immediately  *)
(* followed by the bot turn composed for it.  (generate_response does not  *)
(* suspend between its two appends, so no state between steps holds a user *)
(* turn whose composition is still in progress.)                           *)
(***************************************************************************)
C36_IsUserTurn(entry) == "user_text" \in DOMAIN entry

C36_IsBotTurn(entry) == "bot_response" \in DOMAIN entry

C36_UserTurnsAnswered ==
    \A s \in DOMAIN conversation_history :
        LET history == conversation_history[s]
        IN  \A i \in 1..Len(history) :
                C36_IsUserTurn(history[i]) =>
                    /\ i < Len(history)
                    /\ C36_IsBotTurn(history[i + 1])
                    /\ history[i + 1].emotion_context = history[i].emotion

(***************************************************************************)
(* C34.  At every moment any two open streaming connections have           *)
(* different session ids.                                                  *)
(***************************************************************************)
C34_DistinctSessionIds ==
    \A c, d \in Conns :
        (c # d /\ Connected(c) /\ Connected(d)) => session_id[c] # session_id[d]

(***************************************************************************)
(* C33.  An inbound message that is not a well-formed audio or text        *)
(* message (a body that is not JSON, JSON without a type, an unknown type, *)
(* an audio message without audio, a text message without text) leaves the *)
(* connection open with its handler awaiting the next message, and the     *)
(* connection stays in active_connections until it disconnects.            *)
(***************************************************************************)
\* the handler of c reads a body in this step
C33_Reads(c) ==
    /\ pc[c] = "receive"
    /\ inputs' = inputs + 1
    /\ pc'[c] # pc[c] \/ message'[c] # message[c]

\* message_data lacks the payload of its type
C33_PayloadMissing(m) ==
    \/ m.type = "audio" /\ m.audio = Absent
    \/ m.type = "text" /\ m.text = Absent

C33_MalformedStep ==
    \A c \in Conns :
        \* whatever the body, the handler goes on: it awaits the next message
        \* or works on a message of a known type
        /\ C33_Reads(c) =>
              /\ Connected(c)'
              /\ pc'[c] \in {"receive", "stt", "text"}
              /\ pc'[c] \in {"stt", "text"} => message'[c].type \in {"audio", "text"}
        \* a message without its payload ends in an error event and the
        \* handler awaits the next message, unless the client has gone
        /\ (pc[c] \in {"stt", "text"} /\ C33_PayloadMissing(message[c])
               /\ pc'[c] \notin {pc[c], "closed"}) =>
              /\ pc'[c] = "receive"
              /\ Connected(c)'
        \* the connection leaves the list only by its disconnect
        /\ (Connected(c) /\ ~Connected(c)') => pc'[c] = "closed"
        /\ (Connected(c) /\ Connected(c)') => pc'[c] \in C23_Live

C33_MalformedKeepsConnection == [][C33_MalformedStep]_vars

(***************************************************************************)
(* C31.  Turns on one connection are processed one at a time in arrival    *)
(* order.  The handler reads a message only while it awaits one, that is   *)
(* after the turn of the previous message has finished (an audio or text   *)
(* turn has sent its last event by then); the message read is the next of  *)
(* the connection's inbound stream and its turn starts with nothing        *)
(* emitted; and every call and event is added to the turn of the message   *)
(* read last, after what that turn has emitted so far.                     *)
(***************************************************************************)
\* the handler of c reads a body in this step
C31_Reads(c) ==
    /\ pc[c] # "new"
    /\ inputs' = inputs + 1
    /\ message'[c] # message[c] \/ (pc[c] # "crashed" /\ pc'[c] = "crashed")

\* the handler of c calls a service or sends an event in this step
C31_Emits(c) == turn_log'[c] # turn_log[c] /\ turn_log'[c] # <<>>

C31_TerminalEvents == {"tts_result", "text_response", "error"}

C31_TurnFinished(c) ==
    /\ pc[c] = "receive"
    /\ (AudioTurn(c) \/ TextTurn(c)) =>
          /\ Events(c) # <<>>
          /\ turn_log[c][Len(turn_log[c])].type \in C31_TerminalEvents

C31_OneAtATimeStep ==
    \A c \in Conns :
        /\ C31_Reads(c) =>
              /\ C31_TurnFinished(c)
              /\ turn_log'[c] = <<>>
              /\ message'[c] # None => message'[c].arrival = NextArrival(c)
        /\ C31_Emits(c) =>
              /\ InTurn(c)
              /\ pc[c] \in {"stt", "emotion", "compose", "tts", "text"}
              /\ message'[c] = message[c]
              /\ Len(turn_log'[c]) > Len(turn_log[c])
              /\ SubSeq(turn_log'[c], 1, Len(turn_log[c])) = turn_log[c]

C31_OneAtATime == [][C31_OneAtATimeStep]_vars

\* the second message of a connection is an audio message, and its turn has
\* sent its first two events
C31_Witness ==
    \E c \in Conns :
        /\ AudioTurn(c) /\ message[c].arrival = 2
        /\ pc[c] = "compose"
        /\ EventTypes(c) = <<"stt_result", "emotion_result">>

(***************************************************************************)
(* C32.  Every audio message and every text message gets its answer.       *)
(* While the turn runs no terminal event has been sent; once the handler   *)
(* awaits the next message the turn has sent exactly one terminal event,   *)
(* as its last event: tts_result or error for an audio message,            *)
(* text_response or error for a text message, never a success event and   *)
(* an error both.  And a turn that has started ends: the handler comes to  *)
(* await the next message, unless the client goes away first.             *)
(***************************************************************************)
C32_Terminal(c) ==
    IF AudioTurn(c) THEN {"tts_result", "error"} ELSE {"text_response", "error"}

C32_Success == {"tts_result", "text_response"}

C32_Running(c) == pc[c] \in Stages

C32_TerminalCount(c) ==
    Cardinality({i \in 1..Len(Events(c)) : EventTypes(c)[i] \in C32_Terminal(c)})

C32_TurnState ==
    \A c \in Conns :
        /\ C32_Running(c) =>
              /\ AudioTurn(c) \/ TextTurn(c)
              /\ C32_TerminalCount(c) = 0
              /\ Range(EventTypes(c)) \cap (C32_Success \cup {"error"}) = {}
        /\ (TurnOver(c) /\ (AudioTurn(c) \/ TextTurn(c))) =>
              /\ C32_TerminalCount(c) = 1
              /\ EventTypes(c)[Len(Events(c))] \in C32_Terminal(c)
              /\ turn_log[c][Len(turn_log[c])] = Events(c)[Len(Events(c))]
              /\ ~(Range(EventTypes(c)) \cap C32_Success # {}
                     /\ "error" \in Range(EventTypes(c)))

\* the steps the scheduling obliges the handler to take are the steps of its
\* stages, and no handler at a stage moves otherwise
C32_StageStepsOnly ==
    \A c \in Conns : (pc[c] \in Stages /\ pc'[c] # pc[c]) => StageReturns(c) /\ StageStep(c)

C32_BoundedResponse ==
    /\ []C32_TurnState
    /\ [][C32_StageStepsOnly]_vars
    /\ \A c \in Conns : C32_Running(c) ~> (TurnOver(c) \/ pc[c] = "closed")

\* the second message of a connection was an audio message, and its turn
\* has ended with tts_result after a failed synthesis
C32_Witness ==
    \E c \in Conns :
        /\ AudioTurn(c) /\ TurnOver(c) /\ message[c].arrival = 2
        /\ EventTypes(c) = AudioOrder
        /\ StageFailed(c, "tts")

(***************************************************************************)
(* C35.  The context used to compose the first reply on a newly opened     *)
(* connection holds that connection's own user turn and nothing else: no   *)
(* connection reads turns stored by another one.  (The reply reports the   *)
(* length of the context it was composed with as context_used.)            *)
(***************************************************************************)
C35_FirstReplyIsolated ==
    \A c \in Conns :
        (InTurn(c) /\ message[c].arrival = 1
            /\ response[c] # None /\ "context_used" \in DOMAIN response[c]) =>
            response[c].context_used = 1

(***************************************************************************)
(* C37.  Through generate_response, in a session whose earlier user turns  *)
(* were all answered by a bot turn, a reply composed in en or te carries   *)
(* the context-shift prefix exactly when the emotion of the current turn   *)
(* differs from the emotion of the user turn stored last before it: a      *)
(* change two user turns back (neutral, happy, happy) is not detected.     *)
(* C37_PrefixIffChangedAsStated is the statement for every language.       *)
(***************************************************************************)
\* the handler of c calls generate_response in this step and holds the
\* reply afterwards
C37_Composes(c) ==
    /\ pc[c] \in {"compose", "text"}
    /\ conversation_history' # conversation_history
    /\ response'[c] # None

C37_Answered(history) ==
    \A i \in 1..Len(history) :
        "user_text" \in DOMAIN history[i] =>
            i < Len(history) /\ "bot_response" \in DOMAIN history[i + 1]

C37_CarriesPrefix(reply) == "prefix" \in DOMAIN reply /\ reply.prefix = "support"

\* the emotion passed to generate_response differs from that of the last
\* stored user turn
C37_EmotionChanged(c) ==
    LET history == HistoryOf(conversation_history, session_id[c])
        users == {i \in 1..Len(history) : "user_text" \in DOMAIN history[i]}
        emotion == IF pc[c] = "text" THEN "neutral" ELSE emotion_result[c].emotion
    IN  /\ users # {}
        /\ history[CHOOSE i \in users : \A j \in users : j <= i].emotion # emotion

C37_AsStatedStep ==
    \A c \in Conns :
        (C37_Composes(c)
            /\ C37_Answered(HistoryOf(conversation_history, session_id[c]))) =>
            (C37_CarriesPrefix(response'[c].text) <=> C37_EmotionChanged(c))

C37_PrefixIffChangedAsStated == [][C37_AsStatedStep]_vars

C37_Step ==
    \A c \in Conns :
        (C37_Composes(c)
            /\ C37_Answered(HistoryOf(conversation_history, session_id[c]))
            /\ MessageLanguage(message[c]) \in PoolLanguages) =>
            (C37_CarriesPrefix(response'[c].text) <=> C37_EmotionChanged(c))

C37_PrefixIffChanged == [][C37_Step]_vars

\* the third turn of a session, happy after neutral and happy, was answered
\* without the prefix
C37_Witness ==
    \E c \in Conns :
        LET history == HistoryOf(conversation_history, session_id[c])
        IN  /\ AudioTurn(c) /\ message[c].arrival = 3
            /\ response[c] # None /\ ~C37_CarriesPrefix(response[c].text)
            /\ Len(history) = 6
            /\ <<history[1].emotion, history[3].emotion, history[5].emotion>>
                  = <<"neutral", "happy", "happy">>
            /\ history[6].bot_response = response[c].text

(***************************************************************************)
(* C38.  The HTTP endpoints and the streaming endpoint use separate        *)
(* session stores.  A generate_response, conversation_summary or           *)
(* clear_session request leaves the turns stored by streaming connections  *)
(* and every handler as they are, and what it returns is computed from the *)
(* HTTP store alone, also for a session id a streaming connection uses; a  *)
(* step of a streaming handler leaves the HTTP store as it is, and the     *)
(* reply of a streaming turn is composed from the streaming store alone.   *)
(***************************************************************************)
\* an HTTP request is served in this step
C38_Request == returned' # returned

C38_Min(a, b) == IF a < b THEN a ELSE b

C38_SeparateStep ==
    /\ C38_Request =>
          /\ conversation_history' = conversation_history
          /\ appended' = appended
          /\ UNCHANGED <<active_connections, pc, session_id, handler_locals, turn_log>>
          /\ LET s == returned'.session_id
                 stored == Len(HistoryOf(nlp_history, s))
             IN  /\ returned'.op = "conversation_summary" =>
                       /\ returned'.value.summary = GetConversationSummary(nlp_history, s)
                       /\ nlp_history' = nlp_history
                 /\ returned'.op = "clear_session" =>
                       nlp_history' = ClearSession(nlp_history, s)
                 /\ (returned'.op = "generate_response"
                        /\ returned'.value.context_used # 0) =>
                       /\ returned'.value.context_used
                             = C38_Min(context_window, stored + 1)
                       /\ returned'.value.conversation_length
                             = C38_Min(max_history, stored + 2)
    /\ ~C38_Request =>
          /\ nlp_history' = nlp_history
          /\ \A c \in Conns :
                (C37_Composes(c) /\ "context_used" \in DOMAIN response'[c]) =>
                    response'[c].context_used
                        = C38_Min(context_window,
                                  Len(HistoryOf(conversation_history, session_id[c])) + 1)

C38_SeparateStores == [][C38_SeparateStep]_vars

\* an HTTP reply for session 1 was composed with no earlier turn in its
\* context while a streaming connection has a turn stored under session 1
C38_Witness ==
    /\ returned # None /\ returned.op = "generate_response"
    /\ returned.session_id = 1 /\ returned.value.context_used = 1
    /\ 1 \in DOMAIN conversation_history /\ Len(conversation_history[1]) = 2
    /\ \E c \in Conns : Connected(c) /\ session_id[c] = 1 /\ TurnOver(c)
====
